---------------------------- MODULE Spec2Model ----------------------------
(***************************************************************************)
(* A model of the image viewer: the session/selection store                *)
(* (utils/database.ts), the folder scan (utils/fileSystem.ts) and the App  *)
(* component's handlers and effects (App.tsx): grid navigation,            *)
(* pagination, selection, session restore, the full-resolution cache.      *)
(*                                                                         *)
(* Files are named by positive integers; a folder scan returns them in     *)
(* increasing order (scanFolder sorts by fileName).  A session id of 0 is  *)
(* JavaScript's null (AUTOINCREMENT ids start at 1, and the code tests     *)
(* `currentSessionId &&`), a thumbnail of 0 is NULL / undefined, a         *)
(* lightboxImageId of 0 is null.                                           *)
(*                                                                         *)
(* React state updates made by one handler run are committed together and  *)
(* the effects they trigger run before the next event is handled, so one   *)
(* handler run together with its effects is one action.  Asynchronous      *)
(* work (full-resolution loads, durable writes) is in flight between       *)
(* actions and completes by an action of its own.                          *)
(*                                                                         *)
(* Specifications:                                                         *)
(*   SpecStore  the store's API called by an arbitrary client              *)
(*   SpecWrites the store's synchronizing operations, writes that fail     *)
(*   SpecKeys   the App without a store, one folder of any size            *)
(*   Spec       the App with its store, folder sizes from FolderSizes      *)
(*   SpecCache  the App's close-up requests and full-resolution cache      *)
(*   SpecLightbox  stepping through a folder in the close-up view          *)
(*   SpecSel    the App on small folders: selection, rescans, reloads      *)
(*   SpecFolders  folder selections with the scan awaited, unreadable      *)
(*              files                                                      *)
(*   SpecThumbs the thumbnail effect: its runs, timers and snapshot        *)
(*   SpecExport the export of the selected images, copies that fail        *)
(*   SpecArrows the arrow keys from every cursor on the displayed page     *)
(*   SpecActivate  Enter and Space on the focused item                     *)
(*   SpecEvict  page changes after one close-up view                       *)
(*   SpecCloseUps  close-up views, page buttons and the grid toggle        *)
(*   SpecThumbFails  thumbnail runs with a file createThumbnail rejects    *)
(*   SpecThumbRace  thumbnail runs that overlap after rescans              *)
(*   SpecLate   a page turn while thumbnails and loads are in flight       *)
(*   SpecSync   the store's calls that write a row, and their writes       *)
(*   SpecThumbsFair  SpecThumbs with every pending completion taken        *)
(* In the specifications without CreateThumbnailDone a thumbnail is        *)
(* generated in one step (ThumbnailDone) or not at all.                    *)
(***************************************************************************)
EXTENDS Integers, Sequences, FiniteSets, TLC

VARIABLES
  db,               \* database.ts:4    the sql.js database, NullDb when null
  idb,              \* database.ts:39   the snapshot stored under 'sqliteDb'
  saves,            \* database.ts:110  snapshots whose idb.put is in flight
  now,              \* Date.now()
  threw,            \* whether the last store call threw "not initialized"
  images,           \* App:36
  currentPage,      \* App:37
  gridMode,         \* App:38
  currentSessionId, \* App:42
  dbInitialized,    \* App:43
  lightboxImageId,  \* App:46
  focusedIndex,     \* App:47
  mounted,          \* whether the App component is mounted
  loads,            \* loadFullResImage calls awaiting getFile()
  liveUrls,         \* full-resolution object URLs created and not revoked
  scans,            \* App:127  handleSelectFolder calls awaiting scanFolder
  runs,             \* App:528  generateThumbnailsForPage calls in progress
  timers,           \* App:572  setTimeout callbacks of the thumbnail effect
  export,           \* fileSystem:98  the exportSelectedImages call made last
  requested,        \* the ids handleLongPress and handleNavigateLightbox
                    \* were called for: a history of the close-up requests
  lastOp            \* the step taken last: a handler, store call or completion

storeVars == <<db, idb, saves, now, threw>>
appVars == <<images, currentPage, gridMode, currentSessionId, dbInitialized,
             lightboxImageId, focusedIndex, mounted, loads, liveUrls>>
asyncVars == <<scans, runs, timers, export, requested>>
vars == <<db, idb, saves, now, threw, images, currentPage, gridMode,
          currentSessionId, dbInitialized, lightboxImageId, focusedIndex,
          mounted, loads, liveUrls, scans, runs, timers, export, requested,
          lastOp>>

-----------------------------------------------------------------------------
(* Bounds of the model *)

\* the largest folder of SpecKeys, the folder of SpecLightbox
MaxItems == 76
\* the largest file name of SpecStore and SpecSel
MaxFiles == 2
\* sessions a client of SpecStore creates
MaxSessions == 1
\* the latest time Date.now() returns
MaxClock == 1
\* idb.put calls in flight when a user event or store call is taken
MaxPendingSaves == 1

Min(a, b) == IF a < b THEN a ELSE b
Max(a, b) == IF a > b THEN a ELSE b

FolderNames == {"A", "B"}
GridModes == {"5x5", "6x4"}

\* Math.ceil(a / b) for a >= 0, b > 0
Ceil(a, b) == (a + b - 1) \div b

\* the elements of a set of file names in increasing order: the i-th is the
\* one with i elements up to it (1..n is its own order)
SeqOfSet(S) ==
  LET n == Cardinality(S)
  IN IF S = 1..n THEN [i \in 1..n |-> i]
     ELSE [i \in 1..n |->
             CHOOSE x \in S : Cardinality({y \in S : y <= x}) = i]

-----------------------------------------------------------------------------
(* utils/database.ts *)

NullDb == [open |-> FALSE, sessions |-> <<>>, images |-> <<>>, seq |-> 0]

\* new SQL.Database() followed by CREATE TABLE IF NOT EXISTS
EmptyDb == [open |-> TRUE, sessions |-> <<>>, images |-> <<>>, seq |-> 0]

\* the guard of getDatabase
Initialized(d) == d.open

\* db.export(): the snapshot handed to idb.put
Export(d) == [d EXCEPT !.open = TRUE]

createSession(d, folderName, mode, t) ==
  [d EXCEPT !.seq = d.seq + 1,
            !.sessions = Append(d.sessions,
               [id |-> d.seq + 1, folder_name |-> folderName,
                created_at |-> t, last_accessed |-> t, grid_mode |-> mode,
                current_page |-> 0, focused_index |-> 0])]

\* last_insert_rowid() after the INSERT of createSession
LastInsertRowid(d) == d.seq

\* -1 stands for an omitted focusedIndex argument
Undefined == 0 - 1

updateSession(d, sessionId, mode, page, focus, t) ==
  [d EXCEPT !.sessions =
     [i \in 1..Len(d.sessions) |->
        IF d.sessions[i].id = sessionId
        THEN IF focus # Undefined
             THEN [d.sessions[i] EXCEPT !.grid_mode = mode,
                                        !.current_page = page,
                                        !.focused_index = focus,
                                        !.last_accessed = t]
             ELSE [d.sessions[i] EXCEPT !.grid_mode = mode,
                                        !.current_page = page,
                                        !.last_accessed = t]
        ELSE d.sessions[i]]]

SessionObject(row) ==
  [id |-> row.id, folderName |-> row.folder_name, createdAt |-> row.created_at,
   lastAccessed |-> row.last_accessed, gridMode |-> row.grid_mode,
   currentPage |-> row.current_page, focusedIndex |-> row.focused_index]

\* what the lookups return for "no row"
NoSession ==
  [id |-> 0, folderName |-> "", createdAt |-> 0, lastAccessed |-> 0,
   gridMode |-> "5x5", currentPage |-> 0, focusedIndex |-> 0]

getSession(d, sessionId) ==
  LET hits == {i \in 1..Len(d.sessions) : d.sessions[i].id = sessionId}
  IN IF hits = {} THEN NoSession
     ELSE SessionObject(d.sessions[CHOOSE i \in hits : TRUE])

RECURSIVE InsertByLastAccessed(_, _)
\* one step of ORDER BY last_accessed DESC; rows of equal time keep rowid order
InsertByLastAccessed(sorted, row) ==
  IF sorted = <<>> THEN <<row>>
  ELSE IF row.last_accessed > Head(sorted).last_accessed
       THEN <<row>> \o sorted
       ELSE <<Head(sorted)>> \o InsertByLastAccessed(Tail(sorted), row)

RECURSIVE OrderByLastAccessed(_)
OrderByLastAccessed(rows) ==
  IF rows = <<>> THEN <<>>
  ELSE InsertByLastAccessed(OrderByLastAccessed(SubSeq(rows, 1, Len(rows) - 1)),
                            rows[Len(rows)])

\* a lookup that finds no session
findNoSession(d, folderName) == NoSession

getAllSessions(d) ==
  LET rows == OrderByLastAccessed(d.sessions)
  IN [i \in 1..Len(rows) |-> SessionObject(rows[i])]

findSessionByFolderName(d, folderName) ==
  LET rows == OrderByLastAccessed(
                SelectSeq(d.sessions, LAMBDA r : r.folder_name = folderName))
  IN IF rows = <<>> THEN NoSession ELSE SessionObject(rows[1])

\* image is [filePath, selected, thumbnailData]; `selected ? 1 : 0` and
\* `thumbnailData || null`
ImageRow(sessionId, image) ==
  [session_id |-> sessionId, file_path |-> image.filePath,
   selected |-> IF image.selected THEN 1 ELSE 0,
   thumbnail_data |-> image.thumbnailData]

saveImage(d, sessionId, image) ==
  [d EXCEPT !.images = Append(d.images, ImageRow(sessionId, image))]

\* an UPDATE without "AND file_path = ?"
updateEveryThumbnail(d, sessionId, filePath, thumbnailData) ==
  [d EXCEPT !.images =
     [i \in 1..Len(d.images) |->
        IF d.images[i].session_id = sessionId
        THEN [d.images[i] EXCEPT !.thumbnail_data = thumbnailData]
        ELSE d.images[i]]]

updateImageThumbnail(d, sessionId, filePath, thumbnailData) ==
  [d EXCEPT !.images =
     [i \in 1..Len(d.images) |->
        IF d.images[i].session_id = sessionId /\ d.images[i].file_path = filePath
        THEN [d.images[i] EXCEPT !.thumbnail_data = thumbnailData]
        ELSE d.images[i]]]

updateImageSelection(d, sessionId, filePath, selected) ==
  [d EXCEPT !.images =
     [i \in 1..Len(d.images) |->
        IF d.images[i].session_id = sessionId /\ d.images[i].file_path = filePath
        THEN [d.images[i] EXCEPT !.selected = IF selected THEN 1 ELSE 0]
        ELSE d.images[i]]]

\* ORDER BY file_name; rows of equal name keep rowid order.  Rows found in
\* order stay as they are, else a row goes to the place that counts the rows
\* before it
OrderByFileName(rows) ==
  LET Before(j, k) ==
        \/ rows[j].file_path < rows[k].file_path
        \/ rows[j].file_path = rows[k].file_path /\ j <= k
      Place(k) == Cardinality({j \in 1..Len(rows) : Before(j, k)})
  IN IF \A i \in 1..(Len(rows) - 1) :
          rows[i].file_path <= rows[i + 1].file_path
     THEN rows
     ELSE [p \in 1..Len(rows) |->
             rows[CHOOSE k \in 1..Len(rows) : Place(k) = p]]

getSessionImages(d, sessionId) ==
  LET rows == OrderByFileName(
                SelectSeq(d.images, LAMBDA r : r.session_id = sessionId))
  IN [i \in 1..Len(rows) |->
        [sessionId |-> rows[i].session_id, filePath |-> rows[i].file_path,
         selected |-> (rows[i].selected = 1),
         thumbnailData |-> rows[i].thumbnail_data]]

getSelectedImages(d, sessionId) ==
  LET rows == SelectSeq(d.images,
                LAMBDA r : r.session_id = sessionId /\ r.selected = 1)
  IN [i \in 1..Len(rows) |->
        [sessionId |-> rows[i].session_id, filePath |-> rows[i].file_path,
         selected |-> TRUE, thumbnailData |-> rows[i].thumbnail_data]]

\* DELETE FROM sessions: sql.js leaves PRAGMA foreign_keys off and the code
\* never turns it on, so the ON DELETE CASCADE of the images table is inert
deleteSession(d, sessionId) ==
  [d EXCEPT !.sessions = SelectSeq(d.sessions, LAMBDA r : r.id # sessionId)]

\* saveToIndexedDB up to its first await: nothing when db is null, else the
\* export joins the puts in flight (the connection serves them in order)
saveToIndexedDB(d, pending) ==
  IF ~Initialized(d) THEN pending ELSE Append(pending, Export(d))

-----------------------------------------------------------------------------
(* SpecStore: the store's API called by an arbitrary client *)

\* item rows a client of SpecStore inserts
MaxRows == 2

\* the file paths a client of SpecStore uses
StorePaths == {1}

StoreOps ==
  {"createSession", "updateSession", "getSession", "getAllSessions",
   "findSessionByFolderName", "saveImage", "updateImageThumbnail",
   "updateImageSelection", "saveImagesToDatabase", "getSessionImages",
   "getSelectedImages", "deleteSession", "exportDatabase"}

\* a store where every call that passes getDatabase() starts a
\* synchronization
CallThenSync(op, newDb, sync) ==
  /\ Len(saves) < MaxPendingSaves
  /\ lastOp' = op
  /\ UNCHANGED asyncVars
  /\ IF ~Initialized(db)
     THEN threw' = TRUE /\ UNCHANGED <<db, saves>>
     ELSE /\ threw' = FALSE
          /\ db' = newDb
          /\ saves' = saveToIndexedDB(newDb, saves)
  /\ UNCHANGED <<idb, now>>
  /\ UNCHANGED appVars

\* a call that starts with getDatabase(): it throws when db is null, else
\* leaves newDb and, with sync, starts a synchronization
Call(op, newDb, sync) ==
  /\ Len(saves) < MaxPendingSaves
  /\ lastOp' = op
  /\ UNCHANGED asyncVars
  /\ IF ~Initialized(db)
     THEN threw' = TRUE /\ UNCHANGED <<db, saves>>
     ELSE /\ threw' = FALSE
          /\ db' = newDb
          /\ saves' = IF sync THEN saveToIndexedDB(newDb, saves) ELSE saves
  /\ UNCHANGED <<idb, now>>
  /\ UNCHANGED appVars

\* initDatabase up to `await saveToIndexedDB()`: idb.get is served after the
\* puts issued before it; a snapshot that fails to load is replaced by a new
\* database
CallInitDatabase ==
  /\ saves = <<>>
  /\ lastOp' = "initDatabase"
  /\ UNCHANGED asyncVars
  /\ threw' = FALSE
  /\ IF Initialized(db)
     THEN UNCHANGED <<db, saves>>
     ELSE \E loadOk \in BOOLEAN :
            /\ db' = IF Initialized(idb) /\ loadOk THEN idb ELSE EmptyDb
            /\ saves' = saveToIndexedDB(db', saves)
  /\ UNCHANGED <<idb, now>>
  /\ UNCHANGED appVars

CallCloseDatabase ==
  /\ lastOp' = "closeDatabase"
  /\ UNCHANGED asyncVars
  /\ threw' = FALSE
  /\ db' = NullDb
  /\ UNCHANGED <<idb, saves, now>>
  /\ UNCHANGED appVars

CallCreateSession ==
  /\ db.seq < MaxSessions
  /\ Call("createSession", createSession(db, "A", "5x5", now), TRUE)

CallUpdateSession ==
  \E id \in 1..MaxSessions, f \in {Undefined, 1} :
    Call("updateSession", updateSession(db, id, "6x4", 1, f, now), TRUE)

CallGetSession == Call("getSession", db, FALSE)

CallGetAllSessions == Call("getAllSessions", db, FALSE)

CallFindSessionByFolderName == Call("findSessionByFolderName", db, FALSE)

CallSaveImage ==
  \E id \in 1..MaxSessions, p \in StorePaths :
    /\ Len(db.images) < MaxRows
    /\ Call("saveImage",
            saveImage(db, id, [filePath |-> p, selected |-> FALSE,
                               thumbnailData |-> 0]), FALSE)

CallUpdateImageThumbnail ==
  \E id \in 1..MaxSessions, p \in StorePaths :
    Call("updateImageThumbnail", updateImageThumbnail(db, id, p, 1), FALSE)

CallUpdateImageSelection ==
  \E id \in 1..MaxSessions, p \in StorePaths, s \in BOOLEAN :
    Call("updateImageSelection", updateImageSelection(db, id, p, s), TRUE)

\* saveImagesToDatabase does not call getDatabase()
CallSaveImagesToDatabase ==
  /\ Len(saves) < MaxPendingSaves
  /\ lastOp' = "saveImagesToDatabase"
  /\ UNCHANGED asyncVars
  /\ threw' = FALSE
  /\ saves' = saveToIndexedDB(db, saves)
  /\ UNCHANGED <<db, idb, now>>
  /\ UNCHANGED appVars

CallGetSessionImages == Call("getSessionImages", db, FALSE)

CallGetSelectedImages == Call("getSelectedImages", db, FALSE)

CallDeleteSession ==
  \E id \in 1..MaxSessions : Call("deleteSession", deleteSession(db, id), FALSE)

CallExportDatabase == Call("exportDatabase", db, FALSE)

\* puts that complete newest first
SaveDoneNewestFirst ==
  /\ saves # <<>>
  /\ lastOp' = "saveDone"
  /\ UNCHANGED asyncVars
  /\ idb' = saves[Len(saves)]
  /\ saves' = SubSeq(saves, 1, Len(saves) - 1)
  /\ UNCHANGED <<db, now, threw>>
  /\ UNCHANGED appVars

\* the oldest idb.put in flight succeeds: the puts are readwrite
\* transactions on one object store, issued in the order of the exports and
\* run by IndexedDB in the order they were created
SaveDone ==
  /\ saves # <<>>
  /\ lastOp' = "saveDone"
  /\ UNCHANGED asyncVars
  /\ idb' = Head(saves)
  /\ saves' = Tail(saves)
  /\ UNCHANGED <<db, now, threw>>
  /\ UNCHANGED appVars

\* a failed idb.put that undid the in-memory change: the database falls back
\* to the snapshot in IndexedDB
SaveFailsRollsBack ==
  /\ saves # <<>>
  /\ lastOp' = "saveFails"
  /\ UNCHANGED asyncVars
  /\ saves' = Tail(saves)
  /\ db' = idb
  /\ UNCHANGED <<idb, now, threw>>
  /\ UNCHANGED appVars

\* the oldest idb.put in flight fails; saveToIndexedDB catches and logs
SaveFails ==
  /\ saves # <<>>
  /\ lastOp' = "saveFails"
  /\ UNCHANGED asyncVars
  /\ saves' = Tail(saves)
  /\ UNCHANGED <<db, idb, now, threw>>
  /\ UNCHANGED appVars

Tick ==
  /\ now < MaxClock
  /\ lastOp' = "tick"
  /\ UNCHANGED asyncVars
  /\ now' = now + 1
  /\ UNCHANGED <<db, idb, saves, threw>>
  /\ UNCHANGED appVars

\* no exportSelectedImages call was made yet
NoExport ==
  [phase |-> "idle", selected |-> <<>>, asked |-> FALSE, attempted |-> <<>>,
   success |-> 0, failed |-> 0, errors |-> <<>>, copied |-> {},
   error |-> "none"]

Init ==
  /\ db = NullDb
  /\ idb = NullDb
  /\ saves = <<>>
  /\ now = 0
  /\ threw = FALSE
  /\ images = <<>>
  /\ currentPage = 0
  /\ gridMode = "5x5"
  /\ currentSessionId = 0
  /\ dbInitialized = FALSE
  /\ lightboxImageId = 0
  /\ focusedIndex = 0
  /\ mounted = TRUE
  /\ loads = <<>>
  /\ liveUrls = 0
  /\ scans = <<>>
  /\ runs = <<>>
  /\ timers = <<>>
  /\ export = NoExport
  /\ requested = {}
  /\ lastOp = "mount"

NextStore ==
  \/ CallInitDatabase
  \/ CallCloseDatabase
  \/ CallCreateSession
  \/ CallUpdateSession
  \/ CallGetSession
  \/ CallGetAllSessions
  \/ CallFindSessionByFolderName
  \/ CallSaveImage
  \/ CallUpdateImageThumbnail
  \/ CallUpdateImageSelection
  \/ CallSaveImagesToDatabase
  \/ CallGetSessionImages
  \/ CallGetSelectedImages
  \/ CallDeleteSession
  \/ CallExportDatabase
  \/ SaveDone
  \/ SaveFails
  \/ Tick

SpecStore == Init /\ [][NextStore]_vars

\* SpecWrites: the operations that start a synchronization, with the rows
\* they act on, and writes that succeed or fail
NextWrites ==
  \/ CallInitDatabase
  \/ CallCreateSession
  \/ CallUpdateSession
  \/ CallSaveImage
  \/ CallUpdateImageSelection
  \/ CallSaveImagesToDatabase
  \/ SaveDone
  \/ SaveFails

SpecWrites == Init /\ [][NextWrites]_vars

-----------------------------------------------------------------------------
(* utils/fileSystem.ts and App.tsx: pure parts *)

\* the item list scanFolder returns for a folder holding `files`
scanFolder(files) ==
  LET paths == SeqOfSet(files)
  IN [i \in 1..Len(paths) |->
        [path |-> paths[i], selected |-> FALSE, thumbnailUrl |-> 0,
         fullResUrl |-> FALSE]]

Cols(mode) == IF mode = "5x5" THEN 5 ELSE 6
Rows(mode) == IF mode = "5x5" THEN 5 ELSE 4
ImagesPerPage(mode) == IF mode = "5x5" THEN 25 ELSE 24
TotalPages(n, mode) == Ceil(n, ImagesPerPage(mode))

\* images.findIndex(img => img.id === id), zero-based, -1 when absent
FindIndex(imgs, id) ==
  LET hits == {i \in 1..Len(imgs) : imgs[i].path = id}
  IN IF hits = {} THEN 0 - 1 ELSE (CHOOSE i \in hits : TRUE) - 1

ArrowKeys == {"ArrowUp", "ArrowDown", "ArrowLeft", "ArrowRight"}

\* a switch whose ArrowLeft and ArrowRight stop at the ends of a row
KeyNewIndexStopsAtRowEnd(key, f, p, n, mode) ==
  LET cols == Cols(mode)
      rows == Rows(mode)
      perPage == cols * rows
      row == (f % perPage) \div cols
      col == (f % perPage) % cols
  IN CASE key = "ArrowUp" ->
            IF row > 0 THEN f - cols
            ELSE IF p > 0
                 THEN Min((p - 1) * perPage + (rows - 1) * cols + col, n - 1)
                 ELSE f
       [] key = "ArrowDown" ->
            IF row < rows - 1 /\ f + cols < n
            THEN IF f + cols < Min(p * perPage + perPage, n) THEN f + cols
                 ELSE f
            ELSE IF p < TotalPages(n, mode) - 1
                 THEN Min((p + 1) * perPage + col, n - 1)
                 ELSE f
       [] key = "ArrowLeft" -> IF col > 0 THEN f - 1 ELSE f
       [] key = "ArrowRight" ->
            IF col < cols - 1 /\ f + 1 < Min(p * perPage + perPage, n)
            THEN f + 1 ELSE f
       [] OTHER -> f

\* newIndex of handleKeyDown at the end of its switch, for focused index f,
\* current page p, n images
KeyNewIndex(key, f, p, n, mode) ==
  LET cols == Cols(mode)
      rows == Rows(mode)
      perPage == cols * rows
      indexInPage == f % perPage
      row == indexInPage \div cols
      col == indexInPage % cols
      startIdx == p * ImagesPerPage(mode)
      totalPages == TotalPages(n, mode)
  IN CASE key = "ArrowUp" ->
            IF row > 0 THEN f - cols
            ELSE IF p > 0
                 THEN Min((p - 1) * perPage + (rows - 1) * cols + col, n - 1)
                 ELSE f
       [] key = "ArrowDown" ->
            IF row < rows - 1 /\ f + cols < n
            THEN IF f + cols < Min(startIdx + perPage, n) THEN f + cols ELSE f
            ELSE IF p < totalPages - 1
                 THEN Min((p + 1) * perPage + col, n - 1)
                 ELSE f
       [] key = "ArrowLeft" ->
            IF col > 0 THEN f - 1
            ELSE IF f > 0 THEN f - 1 ELSE f
       [] key = "ArrowRight" ->
            IF col < cols - 1 /\ f + 1 < n
            THEN IF f + 1 < Min(startIdx + perPage, n) THEN f + 1 ELSE f
            ELSE IF f + 1 < n THEN f + 1 ELSE f
       [] OTHER -> f

\* a key handler that never calls setCurrentPage
KeyPageStays(key, f, p, n, mode) == p

\* a key handler whose ArrowLeft never calls setCurrentPage
KeyNewPageLeftStays(key, f, p, n, mode) ==
  LET cols == Cols(mode)
      rows == Rows(mode)
      perPage == cols * rows
      indexInPage == f % perPage
      row == indexInPage \div cols
      col == indexInPage % cols
      endIdx == p * ImagesPerPage(mode) + ImagesPerPage(mode)
      totalPages == TotalPages(n, mode)
  IN CASE key = "ArrowUp" ->
            IF row > 0 THEN p ELSE IF p > 0 THEN p - 1 ELSE p
       [] key = "ArrowDown" ->
            IF row < rows - 1 /\ f + cols < n THEN p
            ELSE IF p < totalPages - 1 THEN p + 1 ELSE p
       [] key = "ArrowRight" ->
            IF col < cols - 1 /\ f + 1 < n THEN p
            ELSE IF f + 1 < n /\ f + 1 >= endIdx /\ p < totalPages - 1
                 THEN p + 1 ELSE p
       [] OTHER -> p

\* the page handleKeyDown passes to setCurrentPage (p when it does not)
KeyNewPage(key, f, p, n, mode) ==
  LET cols == Cols(mode)
      rows == Rows(mode)
      perPage == cols * rows
      indexInPage == f % perPage
      row == indexInPage \div cols
      col == indexInPage % cols
      startIdx == p * ImagesPerPage(mode)
      endIdx == startIdx + ImagesPerPage(mode)
      totalPages == TotalPages(n, mode)
  IN CASE key = "ArrowUp" ->
            IF row > 0 THEN p ELSE IF p > 0 THEN p - 1 ELSE p
       [] key = "ArrowDown" ->
            IF row < rows - 1 /\ f + cols < n THEN p
            ELSE IF p < totalPages - 1 THEN p + 1 ELSE p
       [] key = "ArrowLeft" ->
            IF col > 0 THEN p
            ELSE IF f > 0 /\ f - 1 < startIdx /\ p > 0 THEN p - 1 ELSE p
       [] key = "ArrowRight" ->
            IF col < cols - 1 /\ f + 1 < n THEN p
            ELSE IF f + 1 < n /\ f + 1 >= endIdx /\ p < totalPages - 1
                 THEN p + 1 ELSE p
       [] OTHER -> p

\* handleKeyDown without its final "Ensure new index is valid" test and
\* without the clamps of its page-crossing branches
KeyFocusUnchecked(key, f, p, n, mode) ==
  LET cols == Cols(mode)
      rows == Rows(mode)
      perPage == cols * rows
      row == (f % perPage) \div cols
      col == (f % perPage) % cols
  IN CASE key = "ArrowUp" ->
            IF row > 0 THEN f - cols
            ELSE IF p > 0 THEN (p - 1) * perPage + (rows - 1) * cols + col
                 ELSE f
       [] key = "ArrowDown" ->
            IF row < rows - 1 THEN f + cols
            ELSE IF p < TotalPages(n, mode) - 1 THEN (p + 1) * perPage + col
                 ELSE f
       [] key = "ArrowLeft" -> f - 1
       [] key = "ArrowRight" -> f + 1
       [] OTHER -> f

\* a cursor that wraps around the list where Up or Down has no target
KeyFocusWraps(key, f, p, n, mode) ==
  LET newIndex == KeyNewIndex(key, f, p, n, mode)
  IN IF newIndex = f /\ key = "ArrowUp" THEN n - 1
     ELSE IF newIndex = f /\ key = "ArrowDown" THEN 0
     ELSE IF newIndex >= 0 /\ newIndex < n THEN newIndex ELSE f

\* the focusedIndex handleKeyDown leaves: newIndex when it passes the
\* "Ensure new index is valid" test, else the old one
KeyFocus(key, f, p, n, mode) ==
  LET newIndex == KeyNewIndex(key, f, p, n, mode)
  IN IF newIndex >= 0 /\ newIndex < n THEN newIndex ELSE f

\* a merge that pairs the scanned images with the saved rows by position
MergeImagesByPosition(scanned, savedImages) ==
  [i \in 1..Len(scanned) |->
     IF i > Len(savedImages)
     THEN [scanned[i] EXCEPT !.selected = FALSE, !.thumbnailUrl = 0]
     ELSE [scanned[i] EXCEPT !.selected = savedImages[i].selected,
                             !.thumbnailUrl = savedImages[i].thumbnailData]]

\* a merge that restores the selected flag of a saved row and not its
\* thumbnail
MergeImagesWithoutThumbnails(scanned, savedImages) ==
  [i \in 1..Len(scanned) |->
     LET hits == {k \in 1..Len(savedImages) :
                    savedImages[k].filePath = scanned[i].path}
     IN IF hits = {} THEN [scanned[i] EXCEPT !.selected = FALSE,
                                            !.thumbnailUrl = 0]
        ELSE LET saved == savedImages[CHOOSE k \in hits :
                                        \A j \in hits : j <= k]
             IN [scanned[i] EXCEPT !.selected = saved.selected,
                                   !.thumbnailUrl = 0]]

\* the merge of the restore branch of handleSelectFolder: savedDataMap keeps
\* the last saved row of a path
MergeImages(scanned, savedImages) ==
  [i \in 1..Len(scanned) |->
     LET hits == {k \in 1..Len(savedImages) :
                    savedImages[k].filePath = scanned[i].path}
     IN IF hits = {} THEN [scanned[i] EXCEPT !.selected = FALSE,
                                            !.thumbnailUrl = 0]
        ELSE LET saved == savedImages[CHOOSE k \in hits :
                                        \A j \in hits : j <= k]
             IN [scanned[i] EXCEPT !.selected = saved.selected,
                                   !.thumbnailUrl = saved.thumbnailData]]

\* the create branch of handleSelectFolder: saveImage for each scanned image
\* in turn, that is, one row appended per image, in order
SaveImages(d, sessionId, imgs) ==
  [d EXCEPT !.images = d.images \o
     [i \in 1..Len(imgs) |->
        ImageRow(sessionId, [filePath |-> imgs[i].path,
                             selected |-> imgs[i].selected,
                             thumbnailData |-> 0])]]

\* a cleanup that keeps the fullResUrl of the displayed page only
EvictedOffPage(imgs, page, mode) ==
  {i \in 1..Len(imgs) :
     /\ ((i - 1) \div ImagesPerPage(mode)) # page
     /\ imgs[i].fullResUrl}

\* the items whose fullResUrl the cleanup effect revokes
Evicted(imgs, page, mode) ==
  {i \in 1..Len(imgs) :
     /\ ((i - 1) \div ImagesPerPage(mode)) \notin {page - 1, page, page + 1}
     /\ imgs[i].fullResUrl}

\* "Cleanup fullResUrl for images not on current or adjacent pages"
CleanupFullRes(imgs, page, mode) ==
  LET evicted == Evicted(imgs, page, mode)
  IN [i \in 1..Len(imgs) |->
        IF i \in evicted THEN [imgs[i] EXCEPT !.fullResUrl = FALSE]
        ELSE imgs[i]]

\* the cleanup effect runs after a commit that changed one of its
\* dependencies [currentPage, images.length, imagesPerPage]
CleanupRuns(imgs, page, mode) ==
  /\ Len(imgs) # 0
  /\ \/ page # currentPage
     \/ Len(imgs) # Len(images)
     \/ ImagesPerPage(mode) # ImagesPerPage(gridMode)

\* "Initialize focused index when first loading": the effect on
\* [images.length], given the committed state
InitFocusedIndex(imgs, focus, sessionId, page, mode) ==
  IF Len(imgs) # Len(images) /\ Len(imgs) > 0 /\ focus = 0 /\ sessionId = 0
  THEN page * ImagesPerPage(mode) ELSE focus

\* the images the unmount cleanup closes over: its effect has no
\* dependencies, so they are those of the first render
UnmountImages == <<>>

\* the batch size of generateThumbnailsForPage
concurrency == 4
\* the delays of the thumbnail effect's timers, in milliseconds
PrevPageDelay == 500
NextPageDelay == 1000
SaveDelay == 3000

\* imagesNeedingThumbnails of generateThumbnailsForPage(pageIndex): the
\* paths of the page's items without a thumbnail in the images the effect
\* closed over, in list order
NeedingThumbnails(imgs, pageIndex, mode) ==
  LET pageStartIdx == pageIndex * ImagesPerPage(mode)
      pageEndIdx == Min(pageStartIdx + ImagesPerPage(mode), Len(imgs))
      order == SeqOfSet({i \in (pageStartIdx + 1)..pageEndIdx :
                           imgs[i].thumbnailUrl = 0})
  IN [k \in 1..Len(order) |-> imgs[order[k]].path]

\* generateThumbnailsForPage from the items `needing` on: nothing when none
\* is left, else a run with createThumbnail started for the next batch
generateThumbnailsForPage(needing, sessionId, initialized) ==
  IF needing = <<>> THEN <<>>
  ELSE <<[sessionId |-> sessionId, initialized |-> initialized,
          flying |-> {needing[k] : k \in 1..Min(concurrency, Len(needing))},
          todo |-> SubSeq(needing, concurrency + 1, Len(needing))]>>

\* a run after createThumbnail settled for p: Promise.all resolves with the
\* last item of the batch and the loop starts the next batch
Settle(run, p) ==
  IF run.flying # {p}
  THEN <<[run EXCEPT !.flying = run.flying \ {p}]>>
  ELSE generateThumbnailsForPage(run.todo, run.sessionId, run.initialized)

\* clearTimeout(saveTimer): the cleanup of the thumbnail effect
ClearSaveTimer(pending) ==
  SelectSeq(pending, LAMBDA t : t.delay # SaveDelay)

\* the timers the thumbnail effect sets for (imgs, page, mode)
EffectTimers(imgs, page, mode, sessionId, initialized) ==
  (IF page > 0
   THEN <<[delay |-> PrevPageDelay, sessionId |-> sessionId,
           initialized |-> initialized,
           needing |-> NeedingThumbnails(imgs, page - 1, mode)]>>
   ELSE <<>>)
  \o (IF page < TotalPages(Len(imgs), mode) - 1
      THEN <<[delay |-> NextPageDelay, sessionId |-> sessionId,
              initialized |-> initialized,
              needing |-> NeedingThumbnails(imgs, page + 1, mode)]>>
      ELSE <<>>)
  \o <<[delay |-> SaveDelay, sessionId |-> sessionId,
        initialized |-> initialized, needing |-> <<>>]>>

-----------------------------------------------------------------------------
(* App.tsx: handlers and effects *)

\* full-resolution loads in flight when a close-up request is taken
MaxInFlight == 2
\* live full-resolution object URLs beyond which no further load completes
MaxLiveUrls == 80

\* user events are taken while the component is mounted
UserEvent == mounted /\ Len(saves) < MaxPendingSaves

\* events of the grid: the lightbox is modal and the keyboard effect returns
\* early while it is open
GridEvent == UserEvent /\ lightboxImageId = 0

\* a store call of a handler followed by its fire-and-forget synchronization
Sync(newDb) == db' = newDb /\ saves' = saveToIndexedDB(newDb, saves)

\* the commit of (imgs, page, mode) followed by the cleanup effect
Commit(imgs, page, mode) ==
  /\ currentPage' = page
  /\ gridMode' = mode
  /\ IF CleanupRuns(imgs, page, mode)
     THEN /\ images' = CleanupFullRes(imgs, page, mode)
          /\ liveUrls' = liveUrls - Cardinality(Evicted(imgs, page, mode))
     ELSE /\ images' = imgs
          /\ liveUrls' = liveUrls

\* the initialization effect: initDatabase() resolved, its synchronization
\* awaited, then setDbInitialized(true).  No handler touches the store
\* before that, so the effect is one step.
InitDatabaseEffect ==
  /\ mounted /\ ~dbInitialized /\ ~Initialized(db) /\ saves = <<>>
  /\ \E loadOk \in BOOLEAN, putOk \in BOOLEAN :
       /\ db' = IF Initialized(idb) /\ loadOk THEN idb ELSE EmptyDb
       /\ idb' = IF putOk THEN Export(db') ELSE idb
  /\ dbInitialized' = TRUE
  /\ lastOp' = "initDatabase"
  /\ UNCHANGED asyncVars
  /\ UNCHANGED <<saves, now, threw, images, currentPage, gridMode,
                 currentSessionId, lightboxImageId, focusedIndex, mounted,
                 loads, liveUrls>>

\* handleSelectFolder after `await scanFolder(dirHandle)`: the restore or the
\* create branch, for the session looked up, the dbInitialized and the
\* gridMode the call closed over
AfterScan(folderName, existingSession, initialized, mode, scannedImages) ==
  IF existingSession.id # 0 /\ initialized
  THEN LET sessionId == existingSession.id
           mergedImages ==
             MergeImages(scannedImages, getSessionImages(db, sessionId))
       IN /\ currentSessionId' = sessionId
          /\ focusedIndex' =
               InitFocusedIndex(mergedImages, existingSession.focusedIndex,
                                sessionId, existingSession.currentPage,
                                existingSession.gridMode)
          /\ Commit(mergedImages, existingSession.currentPage,
                    existingSession.gridMode)
          /\ Sync(updateSession(db, sessionId, existingSession.gridMode,
                                existingSession.currentPage,
                                existingSession.focusedIndex, now))
  ELSE IF initialized
  THEN LET created == createSession(db, folderName, mode, now)
           sessionId == LastInsertRowid(created)
           saved == SaveImages(created, sessionId, scannedImages)
       IN /\ currentSessionId' = sessionId
          /\ focusedIndex' = InitFocusedIndex(scannedImages, focusedIndex,
                                              sessionId, 0, gridMode)
          /\ Commit(scannedImages, 0, gridMode)
          /\ db' = saved
          /\ saves' = saveToIndexedDB(saved, saveToIndexedDB(created, saves))
  ELSE /\ focusedIndex' = InitFocusedIndex(scannedImages, focusedIndex,
                                           currentSessionId, 0, gridMode)
       /\ Commit(scannedImages, 0, gridMode)
       /\ UNCHANGED <<currentSessionId, db, saves>>

\* handleSelectFolder once the picker returned the folder `folderName`
\* holding `files`, with a scan that resolves before the next event
handleSelectFolder(folderName, files) ==
  LET existingSession == IF dbInitialized
                         THEN findSessionByFolderName(db, folderName)
                         ELSE NoSession
  IN /\ GridEvent
     /\ lastOp' = "selectFolder"
     /\ UNCHANGED asyncVars
     /\ AfterScan(folderName, existingSession, dbInitialized, gridMode,
                  scanFolder(files))
     /\ UNCHANGED <<idb, now, threw, dbInitialized, lightboxImageId, mounted,
                    loads>>

\* handleSelectFolder up to `await scanFolder(dirHandle)`: the picker
\* returned the folder `folderName`, which holds the image files `files`,
\* those of `unreadable` with a getFile() that rejects.  The button is
\* disabled while isLoading, that is while a scan is awaited.
PickerResolved(folderName, files, unreadable) ==
  /\ GridEvent
  /\ scans = <<>>
  /\ lastOp' = "pickFolder"
  /\ scans' = <<[folderName |-> folderName, files |-> files,
                 unreadable |-> unreadable,
                 existingSession |->
                   IF dbInitialized
                   THEN findSessionByFolderName(db, folderName)
                   ELSE NoSession,
                 dbInitialized |-> dbInitialized, gridMode |-> gridMode]>>
  /\ UNCHANGED <<storeVars, appVars, runs, timers, export, requested>>

\* showDirectoryPicker rejected, the user having dismissed it: the catch of
\* handleSelectFolder logs and resets isLoading, which was not yet set
PickerRejected ==
  /\ GridEvent
  /\ scans = <<>>
  /\ lastOp' = "pickerDeclined"
  /\ UNCHANGED <<storeVars, appVars, asyncVars>>

\* scanFolder resolved: every getFile() of the folder resolved
ScanResolved ==
  /\ mounted
  /\ scans # <<>>
  /\ Head(scans).unreadable = {}
  /\ lastOp' = "selectFolder"
  /\ scans' = Tail(scans)
  /\ AfterScan(Head(scans).folderName, Head(scans).existingSession,
               Head(scans).dbInitialized, Head(scans).gridMode,
               scanFolder(Head(scans).files))
  /\ UNCHANGED <<idb, now, threw, dbInitialized, lightboxImageId, mounted,
                 loads, runs, timers, export, requested>>

\* scanFolder rejected and isLoading left set
ScanRejectedKeepsLoading ==
  /\ mounted
  /\ scans # <<>>
  /\ Head(scans).unreadable # {}
  /\ lastOp' = "selectFolderFailed"
  /\ UNCHANGED <<storeVars, appVars, asyncVars>>

\* scanFolder rejected with the first getFile() that rejects: the catch of
\* handleSelectFolder logs and resets isLoading
ScanRejected ==
  /\ mounted
  /\ scans # <<>>
  /\ Head(scans).unreadable # {}
  /\ lastOp' = "selectFolderFailed"
  /\ scans' = Tail(scans)
  /\ UNCHANGED <<storeVars, appVars, runs, timers, export, requested>>

\* handleKeyDown for an arrow key
handleKeyDown(key) ==
  LET n == Len(images)
      newFocus == KeyFocus(key, focusedIndex, currentPage, n, gridMode)
      newPage == KeyNewPage(key, focusedIndex, currentPage, n, gridMode)
  IN /\ GridEvent
     /\ n # 0
     /\ lastOp' = key
     /\ UNCHANGED asyncVars
     /\ focusedIndex' = newFocus
     /\ Commit(images, newPage, gridMode)
     /\ IF currentSessionId # 0 /\ dbInitialized /\ newFocus # focusedIndex
        THEN Sync(updateSession(db, currentSessionId, gridMode, currentPage,
                                newFocus, now))
        ELSE UNCHANGED <<db, saves>>
     /\ UNCHANGED <<idb, now, threw, currentSessionId, dbInitialized,
                    lightboxImageId, mounted, loads>>

\* the Previous and Next buttons are rendered with the footer and disabled
\* on the first and last page
PageButton(op, newPage) ==
  /\ GridEvent
  /\ Len(images) > 0
  /\ lastOp' = op
  /\ UNCHANGED asyncVars
  /\ Commit(images, newPage, gridMode)
  /\ IF currentSessionId # 0 /\ dbInitialized
     THEN Sync(updateSession(db, currentSessionId, gridMode, newPage,
                             Undefined, now))
     ELSE UNCHANGED <<db, saves>>
  /\ UNCHANGED <<idb, now, threw, currentSessionId, dbInitialized,
                 lightboxImageId, focusedIndex, mounted, loads>>

handlePreviousPage ==
  /\ currentPage # 0
  /\ PageButton("previousPage", Max(0, currentPage - 1))

handleNextPage ==
  /\ currentPage # TotalPages(Len(images), gridMode) - 1
  /\ PageButton("nextPage",
                Min(TotalPages(Len(images), gridMode) - 1, currentPage + 1))

\* a toggle that keeps the page: neither setCurrentPage(0) nor a page of 0
\* in the session row
ToggleKeepsPage ==
  LET newMode == IF gridMode = "5x5" THEN "6x4" ELSE "5x5"
  IN /\ GridEvent
     /\ Len(images) > 0
     /\ lastOp' = "toggleGridMode"
     /\ UNCHANGED asyncVars
     /\ Commit(images, currentPage, newMode)
     /\ IF currentSessionId # 0 /\ dbInitialized
        THEN Sync(updateSession(db, currentSessionId, newMode, currentPage,
                                Undefined, now))
        ELSE UNCHANGED <<db, saves>>
     /\ UNCHANGED <<idb, now, threw, currentSessionId, dbInitialized,
                    lightboxImageId, focusedIndex, mounted, loads>>

handleToggleGridMode ==
  LET newMode == IF gridMode = "5x5" THEN "6x4" ELSE "5x5"
  IN /\ GridEvent
     /\ Len(images) > 0
     /\ lastOp' = "toggleGridMode"
     /\ UNCHANGED asyncVars
     /\ Commit(images, 0, newMode)
     /\ IF currentSessionId # 0 /\ dbInitialized
        THEN Sync(updateSession(db, currentSessionId, newMode, 0,
                                Undefined, now))
        ELSE UNCHANGED <<db, saves>>
     /\ UNCHANGED <<idb, now, threw, currentSessionId, dbInitialized,
                    lightboxImageId, focusedIndex, mounted, loads>>

\* handleSelectImage(id): a short press on a visible item, or Enter
handleSelectImage(id) ==
  LET hit == {i \in 1..Len(images) : images[i].path = id}
  IN /\ GridEvent
     /\ hit # {}
     /\ lastOp' = "selectImage"
     /\ UNCHANGED asyncVars
     /\ images' = [i \in 1..Len(images) |->
                     IF i \in hit
                     THEN [images[i] EXCEPT !.selected = ~images[i].selected]
                     ELSE images[i]]
     /\ IF currentSessionId # 0 /\ dbInitialized
        THEN LET i == CHOOSE j \in hit : TRUE
             IN Sync(updateImageSelection(db, currentSessionId, id,
                                          ~images[i].selected))
        ELSE UNCHANGED <<db, saves>>
     /\ UNCHANGED <<idb, now, threw, currentPage, gridMode, currentSessionId,
                    dbInitialized, lightboxImageId, focusedIndex, mounted,
                    loads, liveUrls>>

\* the ids of the items a short or long press can reach: those of
\* currentImages = images.slice(startIdx, endIdx)
VisibleIds ==
  {images[i].path : i \in
     {j \in 1..Len(images) :
        /\ j - 1 >= currentPage * ImagesPerPage(gridMode)
        /\ j - 1 < (currentPage + 1) * ImagesPerPage(gridMode)}}

ClickImage == \E id \in VisibleIds : handleSelectImage(id)

\* Enter acting on the first item of the list
EnterSelectsFirst ==
  /\ focusedIndex >= 0 /\ focusedIndex < Len(images)
  /\ handleSelectImage(images[1].path)

\* Enter: "if (focusedIndex >= 0 && focusedIndex < images.length)"
KeyEnter ==
  /\ focusedIndex >= 0 /\ focusedIndex < Len(images)
  /\ handleSelectImage(images[focusedIndex + 1].path)

\* a close-up request that loads the second item after the requested one
\* too
CloseUpLoadsTwoAhead(imgs, ci) ==
  LET need(j) == j >= 0 /\ j < Len(imgs) /\ ~imgs[j + 1].fullResUrl
      prev == IF need(ci - 1) THEN <<imgs[ci].path>> ELSE <<>>
      next == IF need(ci + 1) THEN <<imgs[ci + 2].path>> ELSE <<>>
      ahead == IF need(ci + 2) THEN <<imgs[ci + 3].path>> ELSE <<>>
      after == prev \o next \o ahead
  IN IF need(ci)
     THEN <<[id |-> imgs[ci + 1].path, after |-> after]>>
     ELSE [k \in 1..Len(after) |-> [id |-> after[k], after |-> <<>>]]

\* the loads a close-up request for the item at zero-based index ci starts,
\* deciding by the images `imgs` its handler closed over: the item itself
\* and, after it, its neighbours; an item that has a fullResUrl is skipped
CloseUpLoads(imgs, ci) ==
  LET need(j) == j >= 0 /\ j < Len(imgs) /\ ~imgs[j + 1].fullResUrl
      prev == IF need(ci - 1) THEN <<imgs[ci].path>> ELSE <<>>
      next == IF need(ci + 1) THEN <<imgs[ci + 2].path>> ELSE <<>>
      after == prev \o next
  IN IF need(ci)
     THEN <<[id |-> imgs[ci + 1].path, after |-> after]>>
     ELSE [k \in 1..Len(after) |-> [id |-> after[k], after |-> <<>>]]

\* handleLongPress(id)
handleLongPress(id) ==
  LET currentIndex == FindIndex(images, id)
  IN /\ GridEvent
     /\ Len(loads) < MaxInFlight
     /\ currentIndex >= 0
     /\ lastOp' = "longPress"
     /\ UNCHANGED <<scans, runs, timers, export>>
     /\ requested' = requested \cup {id}
     /\ lightboxImageId' = id
     /\ loads' = loads \o CloseUpLoads(images, currentIndex)
     /\ UNCHANGED <<db, idb, saves, now, threw, images, currentPage, gridMode,
                    currentSessionId, dbInitialized, focusedIndex, mounted,
                    liveUrls>>

LongPressImage == \E id \in VisibleIds : handleLongPress(id)

\* Space: "if (focusedIndex >= 0 && focusedIndex < images.length)"
KeySpace ==
  /\ focusedIndex >= 0 /\ focusedIndex < Len(images)
  /\ handleLongPress(images[focusedIndex + 1].path)

handleCloseLightbox ==
  /\ UserEvent
  /\ lightboxImageId # 0
  /\ lastOp' = "closeLightbox"
  /\ UNCHANGED asyncVars
  /\ lightboxImageId' = 0
  /\ UNCHANGED <<db, idb, saves, now, threw, images, currentPage, gridMode,
                 currentSessionId, dbInitialized, focusedIndex, mounted, loads,
                 liveUrls>>

\* handleNavigateLightbox(direction); ImageLightbox offers 'prev' only with
\* hasPrevious and 'next' only with hasNext
handleNavigateLightbox(direction) ==
  LET currentIndex == FindIndex(images, lightboxImageId)
      newIndex == IF direction = "prev" /\ currentIndex > 0
                  THEN currentIndex - 1
                  ELSE IF direction = "next" /\ currentIndex < Len(images) - 1
                       THEN currentIndex + 1
                       ELSE currentIndex
  IN /\ UserEvent
     /\ Len(loads) < MaxInFlight
     /\ lightboxImageId # 0
     /\ currentIndex # 0 - 1
     /\ direction = "prev" => currentIndex > 0
     /\ direction = "next" => currentIndex < Len(images) - 1
     /\ lastOp' = "navigateLightbox"
     /\ UNCHANGED <<scans, runs, timers, export>>
     /\ requested' = requested \cup {images[newIndex + 1].path}
     /\ lightboxImageId' = images[newIndex + 1].path
     /\ focusedIndex' = newIndex
     /\ IF currentSessionId # 0 /\ dbInitialized
        THEN Sync(updateSession(db, currentSessionId, gridMode, currentPage,
                                newIndex, now))
        ELSE UNCHANGED <<db, saves>>
     /\ loads' = loads \o CloseUpLoads(images, newIndex)
     /\ UNCHANGED <<idb, now, threw, images, currentPage, gridMode,
                    currentSessionId, dbInitialized, mounted, liveUrls>>

RemoveAt(q, k) == SubSeq(q, 1, k - 1) \o SubSeq(q, k + 1, Len(q))

\* a handler that ends with the load of the requested item
NoContinuation(task) == <<>>

\* the loads that follow the load `task` in its handler
Continuation(task) ==
  [k \in 1..Len(task.after) |-> [id |-> task.after[k], after |-> <<>>]]

\* a load whose result is dropped when its item is not on the page displayed
\* at the time it resolves
LoadDoneOnPageOnly ==
  \E k \in 1..Len(loads) :
    /\ liveUrls < MaxLiveUrls
    /\ lastOp' = "loadDone"
    /\ UNCHANGED asyncVars
    /\ liveUrls' = liveUrls + 1
    /\ images' = IF mounted
                 THEN [i \in 1..Len(images) |->
                         IF /\ images[i].path = loads[k].id
                            /\ (i - 1) \div ImagesPerPage(gridMode)
                                 = currentPage
                         THEN [images[i] EXCEPT !.fullResUrl = TRUE]
                         ELSE images[i]]
                 ELSE images
    /\ loads' = RemoveAt(loads, k) \o Continuation(loads[k])
    /\ UNCHANGED <<db, idb, saves, now, threw, currentPage, gridMode,
                   currentSessionId, dbInitialized, lightboxImageId,
                   focusedIndex, mounted>>

\* getFile() of a load resolved: URL.createObjectURL, then the item of that
\* id gets the url as fullResUrl, whether or not it had one; a state update
\* of an unmounted component is dropped
LoadDone ==
  \E k \in 1..Len(loads) :
    /\ liveUrls < MaxLiveUrls
    /\ lastOp' = "loadDone"
    /\ UNCHANGED asyncVars
    /\ liveUrls' = liveUrls + 1
    /\ images' = IF mounted
                 THEN [i \in 1..Len(images) |->
                         IF images[i].path = loads[k].id
                         THEN [images[i] EXCEPT !.fullResUrl = TRUE]
                         ELSE images[i]]
                 ELSE images
    /\ loads' = RemoveAt(loads, k) \o Continuation(loads[k])
    /\ UNCHANGED <<db, idb, saves, now, threw, currentPage, gridMode,
                   currentSessionId, dbInitialized, lightboxImageId,
                   focusedIndex, mounted>>

\* getFile() of a load rejected: loadFullResImage catches and logs
LoadFails ==
  \E k \in 1..Len(loads) :
    /\ lastOp' = "loadFails"
    /\ UNCHANGED asyncVars
    /\ loads' = RemoveAt(loads, k) \o Continuation(loads[k])
    /\ UNCHANGED <<db, idb, saves, now, threw, images, currentPage, gridMode,
                   currentSessionId, dbInitialized, lightboxImageId,
                   focusedIndex, mounted, liveUrls>>

\* the component unmounts: the cleanup of the "Cleanup blob URLs" effect
\* revokes the fullResUrl of every image it closed over
Unmount ==
  /\ mounted
  /\ lastOp' = "unmount"
  /\ mounted' = FALSE
  /\ timers' = ClearSaveTimer(timers)
  /\ UNCHANGED <<scans, runs, export, requested>>
  /\ liveUrls' = liveUrls - Cardinality({i \in 1..Len(UnmountImages) :
                                           UnmountImages[i].fullResUrl})
  /\ UNCHANGED <<db, idb, saves, now, threw, images, currentPage, gridMode,
                 currentSessionId, dbInitialized, lightboxImageId,
                 focusedIndex, loads>>

\* the data URL createThumbnail returns for the file p
DataUrl(p) == p

\* createThumbnail resolved for an item the thumbnail effect found without
\* a thumbnail on the current page or a page next to it: the item gets the
\* data URL and, with a session and the store ready, so does its row
ThumbnailDone ==
  \E i \in 1..Len(images) :
    /\ mounted
    /\ currentSessionId # 0
    /\ ((i - 1) \div ImagesPerPage(gridMode))
          \in {currentPage - 1, currentPage, currentPage + 1}
    /\ images[i].thumbnailUrl = 0
    /\ lastOp' = "thumbnailDone"
    /\ UNCHANGED asyncVars
    /\ images' = [images EXCEPT ![i].thumbnailUrl = DataUrl(images[i].path)]
    /\ db' = IF dbInitialized /\ Initialized(db)
             THEN updateImageThumbnail(db, currentSessionId, images[i].path,
                                       DataUrl(images[i].path))
             ELSE db
    /\ UNCHANGED <<idb, saves, now, threw, currentPage, gridMode,
                   currentSessionId, dbInitialized, lightboxImageId,
                   focusedIndex, mounted, loads, liveUrls>>

\* the thumbnail effect, on [currentPage, images.length, currentSessionId,
\* dbInitialized], given the committed state: the cleanup of its last run,
\* then generateThumbnailsForPage(currentPage) and the timers
ThumbnailEffect ==
  IF \/ currentPage' # currentPage
     \/ Len(images') # Len(images)
     \/ currentSessionId' # currentSessionId
     \/ dbInitialized' # dbInitialized
  THEN IF Len(images') = 0 \/ currentSessionId' = 0
       THEN /\ runs' = runs
            /\ timers' = ClearSaveTimer(timers)
       ELSE /\ runs' = runs \o generateThumbnailsForPage(
                                 NeedingThumbnails(images', currentPage',
                                                   gridMode'),
                                 currentSessionId', dbInitialized')
            /\ timers' = ClearSaveTimer(timers)
                           \o EffectTimers(images', currentPage', gridMode',
                                           currentSessionId', dbInitialized')
  ELSE UNCHANGED <<runs, timers>>

\* handleSelectFolder as above, followed by the thumbnail effect
SelectFolderThenThumbnails(folderName, files) ==
  /\ GridEvent
  /\ lastOp' = "selectFolder"
  /\ AfterScan(folderName,
               IF dbInitialized THEN findSessionByFolderName(db, folderName)
               ELSE NoSession,
               dbInitialized, gridMode, scanFolder(files))
  /\ UNCHANGED <<idb, now, threw, dbInitialized, lightboxImageId, mounted,
                 loads, scans, export, requested>>
  /\ ThumbnailEffect

\* a timer may fire when no timer set before it is due earlier or at the
\* same time
Due(k) ==
  /\ k \in 1..Len(timers)
  /\ \A j \in 1..(k - 1) : timers[j].delay > timers[k].delay

\* the timer of an adjacent page fires: generateThumbnailsForPage for the
\* items the effect found without a thumbnail on that page
PageTimerFires ==
  \E k \in 1..Len(timers) :
    /\ Due(k)
    /\ timers[k].delay # SaveDelay
    /\ lastOp' = "pageTimer"
    /\ timers' = RemoveAt(timers, k)
    /\ runs' = runs \o generateThumbnailsForPage(timers[k].needing,
                                                 timers[k].sessionId,
                                                 timers[k].initialized)
    /\ UNCHANGED <<storeVars, appVars, scans, export, requested>>

\* saveTimer fires
SaveTimerFires ==
  \E k \in 1..Len(timers) :
    /\ Due(k)
    /\ timers[k].delay = SaveDelay
    /\ lastOp' = "saveTimer"
    /\ timers' = RemoveAt(timers, k)
    /\ saves' = IF timers[k].initialized THEN saveToIndexedDB(db, saves)
                ELSE saves
    /\ UNCHANGED <<db, idb, now, threw, appVars, scans, runs, export,
                   requested>>

\* createThumbnail resolved for an item of a run's batch: the item of that
\* id gets the data URL and, with the session and the dbInitialized the run
\* closed over, so does its row
CreateThumbnailDone ==
  \E r \in 1..Len(runs) : \E p \in runs[r].flying :
    /\ lastOp' = "createThumbnailDone"
    /\ images' = [i \in 1..Len(images) |->
                    IF images[i].path = p
                    THEN [images[i] EXCEPT !.thumbnailUrl = DataUrl(p)]
                    ELSE images[i]]
    /\ db' = IF runs[r].sessionId # 0 /\ runs[r].initialized
                /\ Initialized(db)
             THEN updateImageThumbnail(db, runs[r].sessionId, p, DataUrl(p))
             ELSE db
    /\ runs' = SubSeq(runs, 1, r - 1) \o Settle(runs[r], p)
                 \o SubSeq(runs, r + 1, Len(runs))
    /\ UNCHANGED <<idb, saves, now, threw, currentPage, gridMode,
                   currentSessionId, dbInitialized, lightboxImageId,
                   focusedIndex, mounted, loads, liveUrls, scans, timers,
                   export, requested>>

\* the page is reloaded once no write is in flight: the module and the
\* component start over, the snapshot in IndexedDB stays
Reload ==
  /\ saves = <<>>
  /\ lastOp' = "reload"
  /\ db' = NullDb
  /\ threw' = FALSE
  /\ images' = <<>>
  /\ currentPage' = 0
  /\ gridMode' = "5x5"
  /\ currentSessionId' = 0
  /\ dbInitialized' = FALSE
  /\ lightboxImageId' = 0
  /\ focusedIndex' = 0
  /\ mounted' = TRUE
  /\ loads' = <<>>
  /\ liveUrls' = 0
  /\ scans' = <<>>
  /\ runs' = <<>>
  /\ timers' = <<>>
  /\ export' = NoExport
  /\ requested' = {}
  /\ UNCHANGED <<idb, saves, now>>

-----------------------------------------------------------------------------
(* SpecKeys: the App whose store never became ready, with the first folder *)
(* the user selects, of any size                                          *)

\* the first folder the user selects
SelectAnyFolder ==
  /\ images = <<>>
  /\ \E n \in 0..MaxItems : handleSelectFolder("A", 1..n)

ArrowKey == \E key \in ArrowKeys : handleKeyDown(key)

NextKeys ==
  \/ SelectAnyFolder
  \/ ArrowKey
  \/ handlePreviousPage
  \/ handleNextPage
  \/ handleToggleGridMode

SpecKeys == Init /\ [][NextKeys]_vars

-----------------------------------------------------------------------------
(* Spec: the App with its store; the folder "A" holds 1 or 26 files at      *)
(* the time of a scan                                                      *)

FolderSizes == {1, 26}

SelectFolder == \E n \in FolderSizes : handleSelectFolder("A", 1..n)

Next ==
  \/ InitDatabaseEffect
  \/ SelectFolder
  \/ ArrowKey
  \/ handlePreviousPage
  \/ handleNextPage
  \/ handleToggleGridMode
  \/ SaveDone

Spec == Init /\ [][Next]_vars

-----------------------------------------------------------------------------
(* SpecCache: close-up requests for the focused item, page buttons and the  *)
(* full-resolution cache, in a folder of three pages, without a store       *)

\* the folder of SpecCache: three pages in either grid mode
CacheItems == 51

SelectCacheFolder == handleSelectFolder("A", 1..CacheItems)

NextCache ==
  \/ SelectCacheFolder
  \/ KeySpace
  \/ handleCloseLightbox
  \/ handlePreviousPage
  \/ handleNextPage
  \/ LoadDone
  \/ LoadFails
  \/ Unmount

SpecCache == Init /\ [][NextCache]_vars

-----------------------------------------------------------------------------
(* SpecLightbox: the close-up view opened on the first item of a folder of  *)
(* MaxItems items and stepped through it, without a store                   *)

SelectLightboxFolder ==
  /\ images = <<>>
  /\ handleSelectFolder("A", 1..MaxItems)

\* Space on the focused item, pressed once the loads requested before have
\* resolved
OpenCloseUp ==
  /\ loads = <<>>
  /\ KeySpace

\* a step in the close-up view, taken once the loads of the step before
\* have resolved
NavigateLightbox ==
  /\ loads = <<>>
  /\ \E direction \in {"prev", "next"} : handleNavigateLightbox(direction)

NextLightbox ==
  \/ SelectLightboxFolder
  \/ OpenCloseUp
  \/ NavigateLightbox
  \/ handleCloseLightbox
  \/ LoadDone

SpecLightbox == Init /\ [][NextLightbox]_vars

-----------------------------------------------------------------------------
(* SpecSel: the App with its store on folders of at most MaxFiles files:    *)
(* selection, thumbnails, rescans of a folder whose files changed, reloads  *)

SelectSmallFolder ==
  \E files \in SUBSET (1..MaxFiles) : handleSelectFolder("A", files)

NextSel ==
  \/ InitDatabaseEffect
  \/ SelectSmallFolder
  \/ ClickImage
  \/ KeyEnter
  \/ ThumbnailDone
  \/ SaveDone
  \/ Reload

SpecSel == Init /\ [][NextSel]_vars

-----------------------------------------------------------------------------
(* SpecFolders: the folders "A" and "B" of at most MaxFiles image files,    *)
(* at most one of them unreadable, selected in turn, with the scan awaited  *)
(* between the picker and the rest of handleSelectFolder, and reloads       *)

\* session rows beyond which no further folder is picked
MaxSessionRows == 3

PickFolder ==
  \E folderName \in FolderNames, files \in SUBSET (1..MaxFiles) :
    \E unreadable \in {{}} \cup {{f} : f \in files} :
      /\ db.seq < MaxSessionRows
      /\ PickerResolved(folderName, files, unreadable)

NextFolders ==
  \/ InitDatabaseEffect
  \/ PickFolder
  \/ PickerRejected
  \/ ScanResolved
  \/ ScanRejected
  \/ SaveDone
  \/ Reload

SpecFolders == Init /\ [][NextFolders]_vars

-----------------------------------------------------------------------------
(* SpecThumbs: the first folder selected, of one or of two pages, with the  *)
(* thumbnail effect: its runs, its timers and the snapshot they write       *)

ThumbFolderSizes == {1, 26}

SelectThumbsFolder ==
  /\ images = <<>>
  /\ \E n \in ThumbFolderSizes : SelectFolderThenThumbnails("A", 1..n)

NextThumbs ==
  \/ InitDatabaseEffect
  \/ SelectThumbsFolder
  \/ CreateThumbnailDone
  \/ PageTimerFires
  \/ SaveTimerFires
  \/ SaveDone

SpecThumbs == Init /\ [][NextThumbs]_vars

-----------------------------------------------------------------------------
(* Properties *)

\* the cursor and the page are those of a list of n > 0 items
ValidCursor(f, p, n, mode) ==
  /\ n > 0
  /\ f >= 0 /\ f < n
  /\ p >= 0 /\ p < TotalPages(n, mode)

\* C1: from a state with itemCount > 0, 0 <= focusedIndex < itemCount and a
\* valid currentPage, in either grid mode, a step of ArrowUp, ArrowDown,
\* ArrowLeft or ArrowRight leaves focusedIndex in [0, itemCount).
C1_ArrowKeyKeepsFocusInRange ==
  [][(/\ ValidCursor(focusedIndex, currentPage, Len(images), gridMode)
      /\ lastOp' \in ArrowKeys)
     => (focusedIndex' >= 0 /\ focusedIndex' < Len(images'))]_vars

\* C1 at a corner: ArrowRight or ArrowDown was pressed with the cursor on the
\* last item of a partially filled last page, which is not the first page
C1_ArrowKeyAtLastItem ==
  /\ lastOp \in {"ArrowRight", "ArrowDown"}
  /\ focusedIndex = Len(images) - 1
  /\ Len(images) % ImagesPerPage(gridMode) # 0
  /\ currentPage = TotalPages(Len(images), gridMode) - 1
  /\ currentPage > 0

\* C2: in every reachable state with itemCount > 0,
\* 0 <= focusedIndex < itemCount.
C2_FocusedIndexInRange ==
  Len(images) > 0 => (focusedIndex >= 0 /\ focusedIndex < Len(images))

\* C3: in every reachable state with itemCount > 0,
\* 0 <= currentPage < ceil(itemCount / pageSize(gridMode)).
C3_CurrentPageInRange ==
  Len(images) > 0 =>
    (currentPage >= 0 /\ currentPage < TotalPages(Len(images), gridMode))

\* the commands of C4: keyboard navigation, page buttons, lightbox navigation
NavigationOps ==
  ArrowKeys \cup {"previousPage", "nextPage", "navigateLightbox"}

\* the row of the active session holds page p and cursor f
Mirrored(d, sessionId, p, f) ==
  /\ getSession(d, sessionId).currentPage = p
  /\ getSession(d, sessionId).focusedIndex = f

\* C4: with a session active whose row mirrors currentPage and focusedIndex,
\* after a keyboard navigation command, a page-button press or a lightbox
\* navigation step the row's current_page and focused_index equal the
\* currentPage and focusedIndex that result from the command.
C4_NavigationMirroredInStore ==
  [][(/\ currentSessionId # 0 /\ dbInitialized
      /\ Mirrored(db, currentSessionId, currentPage, focusedIndex)
      /\ lastOp' \in NavigationOps)
     => Mirrored(db', currentSessionId', currentPage', focusedIndex')]_vars

\* the paths the snapshot in IndexedDB marks selected for a session
DurableSelected(sessionId) ==
  {idb.images[k].file_path : k \in
     {j \in 1..Len(idb.images) :
        /\ idb.images[j].session_id = sessionId
        /\ idb.images[j].selected = 1}}

\* C5: with a session active and no synchronization pending, an item of the
\* in-memory list is selected exactly when the durable store marks its path
\* selected for the session, also for an item that first appeared in a
\* rescan of the session's folder.
C5_DurableSelectionMatchesMemory ==
  (mounted /\ dbInitialized /\ currentSessionId # 0 /\ saves = <<>>)
    => \A i \in 1..Len(images) :
         images[i].selected
           <=> images[i].path \in DurableSelected(currentSessionId)

\* the rows the store holds for a path of a session
StoredRows(d, sessionId, path) ==
  {d.images[k] : k \in
     {j \in 1..Len(d.images) :
        /\ d.images[j].session_id = sessionId
        /\ d.images[j].file_path = path}}

\* the step is handleSelectFolder taking its restore branch
Rescan ==
  /\ lastOp' = "selectFolder"
  /\ dbInitialized
  /\ currentSessionId' # 0
  /\ db'.seq = db.seq

\* C6: when a folder is rescanned against its existing session, every item
\* of the merged list has the selected flag and the thumbnail data the store
\* held for its path before the rescan, and an item the store held nothing
\* for is unselected and has no thumbnail.
C6_RescanMergesByPath ==
  [][Rescan =>
       \A i \in 1..Len(images') :
         LET stored == StoredRows(db, currentSessionId', images'[i].path)
         IN IF stored = {}
            THEN ~images'[i].selected /\ images'[i].thumbnailUrl = 0
            ELSE \A row \in stored :
                   /\ images'[i].selected = (row.selected = 1)
                   /\ images'[i].thumbnailUrl = row.thumbnail_data]_vars

\* C6 in a folder of two files, unchanged since its session was created:
\* the rescan restored one item selected with its thumbnail and one
\* unselected
C6_RescanRestoredSelection ==
  /\ lastOp = "selectFolder"
  /\ Len(images) = 2
  /\ \E i, j \in 1..Len(images) :
       /\ images[i].selected /\ images[i].thumbnailUrl = DataUrl(images[i].path)
       /\ ~images[j].selected
       /\ StoredRows(db, currentSessionId, images[i].path) # {}
       /\ StoredRows(db, currentSessionId, images[j].path) # {}

\* C7: every item that holds a fullResUrl lies on page currentPage - 1,
\* currentPage or currentPage + 1.
C7_FullResInsideWindow ==
  \A i \in 1..Len(images) :
    images[i].fullResUrl =>
      ((i - 1) \div ImagesPerPage(gridMode))
        \in {currentPage - 1, currentPage, currentPage + 1}

\* C8: the number of full-resolution object URLs created and not revoked
\* never exceeds 3 * pageSize(gridMode).
C8_AtMostThreePagesOfHandles ==
  liveUrls <= 3 * ImagesPerPage(gridMode)

\* C9: when the component has unmounted, no full-resolution object URL
\* created before is left unrevoked (thumbnails are data URLs, never blob
\* URLs, so these are all the transient handles there are).
C9_UnmountRevokesAll ==
  lastOp = "unmount" => liveUrls = 0

\* C10: a store operation called while the database is null throws
\* "Database not initialized" and changes neither the database nor the
\* snapshot nor the writes in flight.
C10_UninitializedCallFails ==
  [][(~Initialized(db) /\ lastOp' \in StoreOps)
     => (threw' /\ UNCHANGED <<db, idb, saves>>)]_vars

\* the store operations that start a synchronization
SyncOps ==
  {"createSession", "updateSession", "updateImageSelection",
   "saveImagesToDatabase"}

\* C11: a durable write that fails changes neither the in-memory database
\* (the mutation that started it stays applied) nor raises anything, and a
\* call of createSession, updateSession, updateImageSelection or
\* saveImagesToDatabase on an initialized database does not throw, whatever
\* becomes of the write it starts.
C11_WriteFailureIsCaught ==
  [][/\ (lastOp' = "saveFails" => UNCHANGED <<db, threw>>)
     /\ ((Initialized(db) /\ lastOp' \in SyncOps) => ~threw')]_vars

\* C11 after updateImageSelection: the write failed, the row is selected in
\* memory and the snapshot in IndexedDB knows no selected row
C11_FailedWriteKeepsSelection ==
  /\ lastOp = "saveFails"
  /\ ~threw
  /\ \E k \in 1..Len(db.images) : db.images[k].selected = 1
  /\ \A k \in 1..Len(idb.images) : idb.images[k].selected = 0

\* C20: a step of updateSession, updateImageSelection or updateImageThumbnail
\* that changes a session row or an item row of a session leaves that
\* session's last_accessed at the time of the step.
C20_MutationSetsLastAccessed ==
  [][(/\ Initialized(db)
      /\ lastOp' \in {"updateSession", "updateImageSelection",
                      "updateImageThumbnail"})
     => \A s \in 1..Len(db.sessions) :
          (\/ db'.sessions[s] # db.sessions[s]
           \/ \E k \in 1..Len(db.images) :
                /\ db.images[k].session_id = db.sessions[s].id
                /\ db'.images[k] # db.images[k])
            => db'.sessions[s].last_accessed = now]_vars

\* the cursor f is in the last occupied row of page p, the last page
LastOccupiedRow(f, p, n, mode) ==
  /\ p = TotalPages(n, mode) - 1
  /\ f \div ImagesPerPage(mode) = p
  /\ (f % ImagesPerPage(mode)) \div Cols(mode)
       = ((n - 1) % ImagesPerPage(mode)) \div Cols(mode)

\* C13: ArrowUp with the first page displayed and the cursor in its first
\* row, and ArrowDown with the last page displayed and the cursor in its
\* last occupied row, change neither focusedIndex nor currentPage, write no
\* session row and start no synchronization.
C13_NoTargetIsNoOp ==
  [][(/\ ValidCursor(focusedIndex, currentPage, Len(images), gridMode)
      /\ \/ /\ lastOp' = "ArrowUp"
            /\ currentPage = 0
            /\ focusedIndex < Cols(gridMode)
         \/ /\ lastOp' = "ArrowDown"
            /\ LastOccupiedRow(focusedIndex, currentPage, Len(images),
                               gridMode))
     => UNCHANGED <<focusedIndex, currentPage, db, saves>>]_vars

\* C13 with a session active on 26 items in 6x4: ArrowDown was pressed with
\* the cursor in the only, partially filled row of the second page
C13_DownInLastRow ==
  /\ lastOp = "ArrowDown"
  /\ currentSessionId # 0 /\ dbInitialized
  /\ Len(images) = 26 /\ gridMode = "6x4"
  /\ currentPage = 1 /\ focusedIndex >= 24
  /\ saves = <<>>

RowsOf(d, sessionId, path) ==
  {k \in 1..Len(d.images) :
     /\ d.images[k].session_id = sessionId
     /\ d.images[k].file_path = path}

\* C18: with a session active and the store ready, the store holds exactly
\* one item row with the session's id and the path of each in-memory item.
C18_OneRowPerItem ==
  (mounted /\ dbInitialized /\ currentSessionId # 0)
    => \A i \in 1..Len(images) :
         Cardinality(RowsOf(db, currentSessionId, images[i].path)) = 1

\* C12: when a handleSelectFolder call that awaited its scan ends, the
\* in-memory list holds exactly the readable image files of the folder it
\* scanned, in order, also when getFile() rejected for some other file.
C12_UnreadableFileIsSkipped ==
  [][(scans # <<>> /\ lastOp' \in {"selectFolder", "selectFolderFailed"})
     => LET readable == SeqOfSet(Head(scans).files \ Head(scans).unreadable)
        IN /\ Len(images') = Len(readable)
           /\ \A i \in 1..Len(readable) : images'[i].path = readable[i]]_vars

InFlight ==
  UNION {{<<r, p>> : p \in runs[r].flying} : r \in 1..Len(runs)}

\* C15: at most 4 createThumbnail calls are started and not settled at any
\* time, counted over the run of the current page, the delayed runs of the
\* adjacent pages and the runs of earlier effect executions.
C15_AtMostFourInFlight ==
  Cardinality(InFlight) <= concurrency

\* the snapshot in IndexedDB holds the thumbnail of a path of a session
DurableThumbnail(sessionId, path, url) ==
  \E k \in 1..Len(idb.images) :
    /\ idb.images[k].session_id = sessionId
    /\ idb.images[k].file_path = path
    /\ idb.images[k].thumbnail_data = url

\* C16: once a burst of thumbnail generation is over (no run in progress,
\* no timer pending, no write in flight), the snapshot in IndexedDB holds
\* every thumbnail the items got.
C16_BurstEndsDurable ==
  (/\ mounted /\ dbInitialized /\ currentSessionId # 0
   /\ runs = <<>> /\ timers = <<>> /\ saves = <<>> /\ scans = <<>>)
    => \A i \in 1..Len(images) :
         images[i].thumbnailUrl # 0
           => DurableThumbnail(currentSessionId, images[i].path,
                               images[i].thumbnailUrl)

\* C21: deleteSession leaves no item row with the id of a session row it
\* removed, and leaves every other item row as it was.
C21_DeleteCascades ==
  [][(Initialized(db) /\ lastOp' = "deleteSession")
     => LET removed == {db.sessions[i].id : i \in 1..Len(db.sessions)}
                         \ {db'.sessions[i].id : i \in 1..Len(db'.sessions)}
        IN /\ \A k \in 1..Len(db'.images) :
                db'.images[k].session_id \notin removed
           /\ db'.images
                = SelectSeq(db.images,
                            LAMBDA r : r.session_id \notin removed)]_vars

-----------------------------------------------------------------------------
(* Export: exportSelectedImages copies the selected images, one after the   *)
(* other, into a folder the user picks                                      *)

\* the largest folder of SpecExport
MaxExportFiles == 3

\* the call with the picker requested before the selection is looked at
exportAsksFirst(imgs) ==
  LET selectedImages == SelectSeq(imgs, LAMBDA img : img.selected)
  IN [NoExport EXCEPT !.phase = "picking", !.asked = TRUE,
                      !.selected = [i \in 1..Len(selectedImages)
                                      |-> selectedImages[i].path]]

\* exportSelectedImages up to its first await: "if (selectedImages.length
\* === 0) throw new Error('No images selected')", then showDirectoryPicker
exportSelectedImages(imgs) ==
  LET selectedImages == SelectSeq(imgs, LAMBDA img : img.selected)
  IN IF Len(selectedImages) = 0
     THEN [NoExport EXCEPT !.phase = "threw", !.error = "No images selected"]
     ELSE [NoExport EXCEPT !.phase = "picking", !.asked = TRUE,
                           !.selected = [i \in 1..Len(selectedImages)
                                           |-> selectedImages[i].path]]

\* no export is awaiting its picker or copying: isExporting is false
Exporting == export.phase \in {"picking", "copying"}

\* the Export button, rendered with a folder loaded and disabled without a
\* selection or while exporting, then confirm() answered with OK
handleExportSelected ==
  /\ mounted
  /\ Len(images) > 0
  /\ Len(SelectSeq(images, LAMBDA img : img.selected)) > 0
  /\ ~Exporting
  /\ lastOp' = "exportSelected"
  /\ export' = exportSelectedImages(images)
  /\ UNCHANGED <<storeVars, appVars, scans, runs, timers, requested>>

\* exportSelectedImages called with the images of the App, whatever their
\* selection
CallExportSelectedImages ==
  /\ mounted
  /\ ~Exporting
  /\ lastOp' = "exportSelectedImages"
  /\ export' = exportSelectedImages(images)
  /\ UNCHANGED <<storeVars, appVars, scans, runs, timers, requested>>

\* showDirectoryPicker resolves with the destination folder
DestinationChosen ==
  /\ export.phase = "picking"
  /\ lastOp' = "destinationChosen"
  /\ export' = [export EXCEPT !.phase = "copying"]
  /\ UNCHANGED <<storeVars, appVars, scans, runs, timers, requested>>

\* showDirectoryPicker rejects: the user dismissed it
DestinationDeclined ==
  /\ export.phase = "picking"
  /\ lastOp' = "destinationDeclined"
  /\ export' = [export EXCEPT !.phase = "threw", !.error = "AbortError"]
  /\ UNCHANGED <<storeVars, appVars, scans, runs, timers, requested>>

\* the loop is over after the last selected image
AfterCopy(e) ==
  IF Len(e.attempted) = Len(e.selected) THEN [e EXCEPT !.phase = "returned"]
  ELSE e

\* a copy that fails ends the loop
CopyFailsAborts ==
  /\ export.phase = "copying"
  /\ Len(export.attempted) < Len(export.selected)
  /\ lastOp' = "copyFails"
  /\ LET image == export.selected[Len(export.attempted) + 1]
     IN export' = [export EXCEPT !.phase = "returned",
                                 !.attempted = Append(@, image),
                                 !.failed = @ + 1,
                                 !.errors = Append(@, image)]
  /\ UNCHANGED <<storeVars, appVars, scans, runs, timers, requested>>

\* one pass of the loop whose try block completes: "success++"
CopyDone ==
  /\ export.phase = "copying"
  /\ Len(export.attempted) < Len(export.selected)
  /\ lastOp' = "copyDone"
  /\ LET image == export.selected[Len(export.attempted) + 1]
     IN export' = AfterCopy([export EXCEPT !.attempted = Append(@, image),
                                           !.success = @ + 1,
                                           !.copied = @ \cup {image}])
  /\ UNCHANGED <<storeVars, appVars, scans, runs, timers, requested>>

\* one pass of the loop one of whose awaits rejects: "failed++;
\* errors.push(`Failed to copy ${image.fileName}: ...`)"
CopyFails ==
  /\ export.phase = "copying"
  /\ Len(export.attempted) < Len(export.selected)
  /\ lastOp' = "copyFails"
  /\ LET image == export.selected[Len(export.attempted) + 1]
     IN export' = AfterCopy([export EXCEPT !.attempted = Append(@, image),
                                           !.failed = @ + 1,
                                           !.errors = Append(@, image)])
  /\ UNCHANGED <<storeVars, appVars, scans, runs, timers, requested>>

-----------------------------------------------------------------------------
(* SpecExport: the App without a store on a folder of at most               *)
(* MaxExportFiles images: selection and exports, any copy of which fails    *)

SelectExportFolder ==
  \E n \in 1..MaxExportFiles :
    images = <<>> /\ handleSelectFolder("A", 1..n)

NextExport ==
  \/ SelectExportFolder
  \/ ClickImage
  \/ handleExportSelected
  \/ CallExportSelectedImages
  \/ DestinationChosen
  \/ DestinationDeclined
  \/ CopyDone
  \/ CopyFails

SpecExport == Init /\ [][NextExport]_vars

\* C22: an export of a list without a selected image throws at once: no
\* destination folder is requested and no file is copied.
C22_EmptyExportThrows ==
  /\ [][(lastOp' = "exportSelectedImages"
         /\ \A i \in 1..Len(images) : ~images[i].selected)
        => /\ export'.phase = "threw"
           /\ export'.error = "No images selected"]_vars
  /\ [](export.error = "No images selected"
        => /\ export.phase = "threw"
           /\ ~export.asked
           /\ export.attempted = <<>>
           /\ export.copied = {})

C22_ThrewOnLoadedFolder ==
  /\ export.error = "No images selected"
  /\ lastOp = "exportSelectedImages"
  /\ Len(images) = MaxExportFiles

\* the items of a sequence
Range(s) == {s[i] : i \in 1..Len(s)}

\* C23: the selected images are attempted once each in list order whatever
\* copy fails; every attempt counts as a success or as a failure with one
\* message, and the export returns with success + failed = n.
C23_EveryItemAttempted ==
 /\ [][lastOp' \in {"exportSelected", "exportSelectedImages"}
       => \A p \in 1..MaxExportFiles :
            (\E i \in 1..Len(images) : images[i].path = p /\ images[i].selected)
              <=> p \in Range(export'.selected)]_vars
 /\ []
  /\ export.attempted = SubSeq(export.selected, 1, Len(export.attempted))
  /\ \A i \in 1..Len(export.selected) - 1 :
       export.selected[i] < export.selected[i + 1]
  /\ \A i, j \in 1..Len(export.selected) :
       export.selected[i] = export.selected[j] => i = j
  /\ export.success + export.failed = Len(export.attempted)
  /\ export.success = Cardinality(export.copied)
  /\ export.failed = Len(export.errors)
  /\ Range(export.errors) \cap export.copied = {}
  /\ Range(export.errors) \cup export.copied = Range(export.attempted)
  /\ export.phase = "returned"
       => /\ export.attempted = export.selected
          /\ export.success + export.failed = Len(export.selected)
  /\ export.phase = "copying" => Len(export.attempted) < Len(export.selected)

C23_FirstOfThreeFailed ==
  /\ export.phase = "returned"
  /\ Len(export.selected) = 3
  /\ export.errors = <<export.selected[1]>>
  /\ export.success = 2

\* C24: a folder selection whose picker is dismissed or whose scan fails
\* leaves the images, the session id, the grid mode, the page, the cursor
\* and the rows of the store as they were, and ends with isLoading false,
\* so that the folder button is enabled again.
C24_FailedSelectionChangesNothing ==
  [][(\/ lastOp' \in {"pickerDeclined", "selectFolderFailed"}
      \/ lastOp' = "pickFolder" /\ Head(scans').unreadable # {})
     => /\ images' = images
        /\ currentSessionId' = currentSessionId
        /\ gridMode' = gridMode
        /\ currentPage' = currentPage
        /\ focusedIndex' = focusedIndex
        /\ db' = db
        /\ saves' = saves
        /\ lastOp' # "pickFolder" => scans' = <<>> /\ mounted']_vars

C24_ScanFailedOnLoadedFolder ==
  /\ lastOp = "selectFolderFailed"
  /\ Len(images) = MaxFiles
  /\ currentSessionId # 0
  /\ Len(db.images) = MaxFiles

-----------------------------------------------------------------------------
(* SpecArrows: the arrow keys pressed from every state of a folder of at    *)
(* most MaxItems images whose cursor is on the displayed page, without a    *)
(* store                                                                    *)

\* the cursor f is one of the n items of the displayed page p
OnPage(f, p, n, mode) ==
  /\ n > 0
  /\ f >= 0 /\ f < n
  /\ f \div ImagesPerPage(mode) = p

InitOnPage ==
  \E n \in 1..MaxItems, mode \in GridModes :
    \E f \in 0..(n - 1) :
      /\ db = NullDb
      /\ idb = NullDb
      /\ saves = <<>>
      /\ now = 0
      /\ threw = FALSE
      /\ images = scanFolder(1..n)
      /\ currentPage = f \div ImagesPerPage(mode)
      /\ gridMode = mode
      /\ currentSessionId = 0
      /\ dbInitialized = FALSE
      /\ lightboxImageId = 0
      /\ focusedIndex = f
      /\ mounted = TRUE
      /\ loads = <<>>
      /\ liveUrls = 0
      /\ scans = <<>>
      /\ runs = <<>>
      /\ timers = <<>>
      /\ export = NoExport
      /\ requested = {}
      /\ lastOp = "selectFolder"

SpecArrows == InitOnPage /\ [][ArrowKey]_vars

\* C25: with the cursor on the displayed page, ArrowUp moves it one row up,
\* or from the first row to the same column of the last row of the previous
\* page; ArrowDown moves it one row down where that item is on the page, or
\* else to the same column of the first row of the next page; both clamp the
\* landing index to the last item and change the page only when crossing.
C25_UpDownTransition ==
  [][(/\ OnPage(focusedIndex, currentPage, Len(images), gridMode)
      /\ lastOp' \in {"ArrowUp", "ArrowDown"})
     => LET n == Len(images)
            cols == Cols(gridMode)
            pageSize == ImagesPerPage(gridMode)
            row == (focusedIndex % pageSize) \div cols
            col == (focusedIndex % pageSize) % cols
            pageEnd == Min((currentPage + 1) * pageSize, n)
            nextPageExists == (currentPage + 1) * pageSize < n
        IN IF lastOp' = "ArrowUp"
           THEN IF row > 0
                THEN /\ focusedIndex' = focusedIndex - cols
                     /\ currentPage' = currentPage
                ELSE IF currentPage > 0
                THEN /\ currentPage' = currentPage - 1
                     /\ focusedIndex'
                          = Min(currentPage * pageSize - cols + col, n - 1)
                ELSE UNCHANGED <<focusedIndex, currentPage>>
           ELSE IF row < Rows(gridMode) - 1 /\ focusedIndex + cols < pageEnd
                THEN /\ focusedIndex' = focusedIndex + cols
                     /\ currentPage' = currentPage
                ELSE IF nextPageExists
                THEN /\ currentPage' = currentPage + 1
                     /\ focusedIndex'
                          = Min((currentPage + 1) * pageSize + col, n - 1)
                ELSE UNCHANGED <<focusedIndex, currentPage>>]_vars

\* C25 on 52 items in 5x5: ArrowDown from the last row of the second page
\* landed on the last item, the column aimed at being beyond it
C25_DownClampedToLastItem ==
  /\ lastOp = "ArrowDown"
  /\ Len(images) = 52 /\ gridMode = "5x5"
  /\ currentPage = 2 /\ focusedIndex = 51

\* C26: with the cursor on the displayed page, ArrowLeft moves it to the
\* item before unless it is the first, ArrowRight to the item after unless
\* it is the last; the page follows exactly when the new index is before the
\* start or at the end of the displayed page.
C26_LeftRightTransition ==
  [][(/\ OnPage(focusedIndex, currentPage, Len(images), gridMode)
      /\ lastOp' \in {"ArrowLeft", "ArrowRight"})
     => LET n == Len(images)
            pageSize == ImagesPerPage(gridMode)
            pageStart == currentPage * pageSize
            pageEnd == pageStart + pageSize
        IN IF lastOp' = "ArrowLeft"
           THEN IF focusedIndex > 0
                THEN /\ focusedIndex' = focusedIndex - 1
                     /\ currentPage' = IF focusedIndex - 1 < pageStart
                                       THEN currentPage - 1 ELSE currentPage
                ELSE UNCHANGED <<focusedIndex, currentPage>>
           ELSE IF focusedIndex + 1 < n
                THEN /\ focusedIndex' = focusedIndex + 1
                     /\ currentPage' = IF focusedIndex + 1 >= pageEnd
                                       THEN currentPage + 1 ELSE currentPage
                ELSE UNCHANGED <<focusedIndex, currentPage>>]_vars

\* C26 on 49 items in 6x4: ArrowLeft from the first item of the third page
\* landed on the last item of the second
C26_LeftCrossedPage ==
  /\ lastOp = "ArrowLeft"
  /\ Len(images) = 49 /\ gridMode = "6x4"
  /\ currentPage = 1 /\ focusedIndex = 47

\* the arrow keys keep the cursor on the displayed page
CursorStaysOnPage ==
  OnPage(focusedIndex, currentPage, Len(images), gridMode)

-----------------------------------------------------------------------------
(* SpecActivate: the keyboard alone on a folder of at most MaxFiles images,  *)
(* with the store: the arrow keys, Enter and Space, and the lightbox closed  *)

\* the first folder the user selects
SelectFirstSmallFolder ==
  /\ images = <<>>
  /\ SelectSmallFolder

NextActivate ==
  \/ InitDatabaseEffect
  \/ SelectFirstSmallFolder
  \/ ArrowKey
  \/ KeyEnter
  \/ OpenCloseUp
  \/ handleCloseLightbox
  \/ LoadDone
  \/ SaveDone

SpecActivate == Init /\ [][NextActivate]_vars

\* C27: Space opens the close-up view of the item at focusedIndex and Enter
\* flips the selected flag of the item at focusedIndex and of no other item;
\* neither changes focusedIndex, currentPage or gridMode.
C27_ActivationActsOnFocusedItem ==
  [][lastOp' \in {"longPress", "selectImage"}
     => /\ UNCHANGED <<focusedIndex, currentPage, gridMode>>
        /\ Len(images') = Len(images)
        /\ focusedIndex < Len(images)
        /\ \A i \in 1..Len(images) :
             /\ images'[i].path = images[i].path
             /\ images'[i].selected
                  = IF lastOp' = "selectImage" /\ i = focusedIndex + 1
                    THEN ~images[i].selected
                    ELSE images[i].selected
        /\ lightboxImageId'
             = IF lastOp' = "longPress" THEN images[focusedIndex + 1].path
               ELSE lightboxImageId]_vars

\* C27 with a session: Enter selected the second of two items, the cursor
\* being on it
C27_EnterSelectedSecondItem ==
  /\ lastOp = "selectImage"
  /\ currentSessionId # 0
  /\ focusedIndex = 1
  /\ Len(images) = 2
  /\ images[2].selected /\ ~images[1].selected

\* C27: Space opened the close-up view of the second item
C27_SpaceOpenedSecondItem ==
  /\ lastOp = "longPress"
  /\ focusedIndex = 1
  /\ Len(images) = 2
  /\ lightboxImageId = images[2].path

-----------------------------------------------------------------------------
(* SpecEvict: a folder of CacheItems images without a store: the arrow      *)
(* keys where they turn the page, the page buttons, the grid toggle and     *)
(* one close-up view, opened on the focused item and closed once its loads  *)
(* have resolved                                                            *)

SelectFirstCacheFolder ==
  /\ images = <<>>
  /\ SelectCacheFolder

\* an arrow key pressed where handleKeyDown calls setCurrentPage
TurnPageKey ==
  \E key \in ArrowKeys :
    /\ KeyNewPage(key, focusedIndex, currentPage, Len(images), gridMode)
         # currentPage
    /\ handleKeyDown(key)

\* Space on the focused item, pressed for the first time
OpenFirstCloseUp ==
  /\ requested = {}
  /\ KeySpace

\* the close-up view is closed once its loads have resolved
CloseWhenLoaded ==
  /\ loads = <<>>
  /\ handleCloseLightbox

NextEvict ==
  \/ SelectFirstCacheFolder
  \/ TurnPageKey
  \/ handlePreviousPage
  \/ handleNextPage
  \/ handleToggleGridMode
  \/ OpenFirstCloseUp
  \/ CloseWhenLoaded
  \/ LoadDone

SpecEvict == Init /\ [][NextEvict]_vars

\* the steps that set currentPage or gridMode from the grid
PageOps == ArrowKeys \cup {"previousPage", "nextPage", "toggleGridMode"}

\* item i (from 1) of the list is on page p - 1, p or p + 1
InWindow(i, p, mode) ==
  ((i - 1) \div ImagesPerPage(mode)) \in {p - 1, p, p + 1}

\* C28: the step of an arrow key, page button or grid toggle that changes
\* currentPage revokes and clears the fullResUrl of every item whose page
\* is not the new page or next to it and keeps every other; an item loses
\* its fullResUrl in such a step only.
C28_PageChangeEvicts ==
  /\ [][(lastOp' \in PageOps /\ currentPage' # currentPage)
        => /\ \A i \in 1..Len(images) :
                /\ images'[i].path = images[i].path
                /\ images'[i].fullResUrl
                     = (images[i].fullResUrl
                          /\ InWindow(i, currentPage', gridMode'))
           /\ liveUrls' = liveUrls
                - Cardinality(
                    {i \in 1..Len(images) :
                       /\ images[i].fullResUrl
                       /\ ~InWindow(i, currentPage', gridMode')})]_vars
  /\ [][(/\ Len(images') = Len(images)
         /\ \E i \in 1..Len(images) :
              images[i].fullResUrl /\ ~images'[i].fullResUrl)
        => lastOp' \in PageOps]_vars

\* C28 on 51 items: the grid was toggled to 6x4 and the fullResUrl of the
\* last item of the second page was kept, that of the first item of the
\* third page cleared
C28_ToggleEvictedThirdPage ==
  /\ lastOp = "toggleGridMode"
  /\ gridMode = "6x4" /\ currentPage = 0
  /\ loads = <<>>
  /\ requested = {49}
  /\ images[48].fullResUrl
  /\ ~images[49].fullResUrl
  /\ liveUrls = 1

-----------------------------------------------------------------------------
(* SpecCloseUps: a folder of CacheItems images without a store: close-up    *)
(* views opened on the focused item and stepped through the list, each      *)
(* request made once the loads of the one before have resolved, for at      *)
(* most MaxRequested items, with the page buttons and the grid toggle       *)

\* the items close-up views are requested for
MaxRequested == 5

\* Space while fewer than MaxRequested items were requested
RequestOpen ==
  /\ Cardinality(requested) < MaxRequested
  /\ OpenCloseUp

\* a step in the close-up view while fewer than MaxRequested items were
\* requested
RequestStep ==
  /\ Cardinality(requested) < MaxRequested
  /\ NavigateLightbox

NextCloseUps ==
  \/ SelectFirstCacheFolder
  \/ RequestOpen
  \/ RequestStep
  \/ handleCloseLightbox
  \/ LoadDone
  \/ handlePreviousPage
  \/ handleNextPage
  \/ handleToggleGridMode

SpecCloseUps == Init /\ [][NextCloseUps]_vars

\* C29: an item has a fullResUrl only if handleLongPress or
\* handleNavigateLightbox was called for it or for the item before or after
\* it in the list, and gets one in no step but the completion of a load.
C29_FullResOnlyOnRequest ==
  /\ [](\A i \in 1..Len(images) :
          images[i].fullResUrl
            => \E j \in {i - 1, i, i + 1} :
                 j \in 1..Len(images) /\ images[j].path \in requested)
  /\ [][(\E i \in 1..Len(images') :
           /\ images'[i].fullResUrl
           /\ i \in 1..Len(images) => ~images[i].fullResUrl)
        => lastOp' = "loadDone"]_vars

\* C29 after three requests: the fourth item, which no close-up view was
\* requested for, has a fullResUrl, the third item having been requested
C29_NeighbourLoaded ==
  /\ requested = {1, 2, 3}
  /\ images[4].fullResUrl
  /\ lastOp = "loadDone"

\* C30: once every load has resolved, each item a close-up view was
\* requested for, by Space or by a step in the close-up view, has a
\* fullResUrl, and so have the item before it and the item after it.
C30_CloseUpLoadsNeighbours ==
  loads = <<>>
    => \A i \in 1..Len(images) :
         images[i].path \in requested
           => \A j \in {i - 1, i, i + 1} :
                j \in 1..Len(images) => images[j].fullResUrl

\* C30 after two steps from the first item: the load the step to the third
\* item started, that of the fourth, has resolved
C30_SteppedToThirdItem ==
  /\ lastOp = "loadDone"
  /\ loads = <<>>
  /\ lightboxImageId = 3
  /\ requested = {1, 2, 3}
  /\ images[2].fullResUrl /\ images[3].fullResUrl /\ images[4].fullResUrl
  /\ ~images[5].fullResUrl

-----------------------------------------------------------------------------
(* SpecThumbFails: a folder of two pages selected with the store ready, one *)
(* of its files corrupt, the thumbnail effect, and the page buttons pressed *)
(* once the runs and timers of the effect are over                          *)

\* the files createThumbnail may reject
CorruptFiles == {2}

\* a run that ends with the first createThumbnail that rejects
CreateThumbnailFailsAborts ==
  \E r \in 1..Len(runs) : \E p \in runs[r].flying \cap CorruptFiles :
    /\ lastOp' = "createThumbnailFails"
    /\ runs' = RemoveAt(runs, r)
    /\ UNCHANGED <<storeVars, appVars, scans, timers, export, requested>>

\* createThumbnail rejected for an item of a run's batch: the catch logs,
\* Promise.all carries on
CreateThumbnailFails ==
  \E r \in 1..Len(runs) : \E p \in runs[r].flying \cap CorruptFiles :
    /\ lastOp' = "createThumbnailFails"
    /\ runs' = SubSeq(runs, 1, r - 1) \o Settle(runs[r], p)
                 \o SubSeq(runs, r + 1, Len(runs))
    /\ UNCHANGED <<storeVars, appVars, scans, timers, export, requested>>

\* handlePreviousPage or handleNextPage followed by the thumbnail effect
TurnPageThenThumbnails(op, newPage) ==
  /\ GridEvent
  /\ Len(images) > 0
  /\ lastOp' = op
  /\ Commit(images, newPage, gridMode)
  /\ IF currentSessionId # 0 /\ dbInitialized
     THEN Sync(updateSession(db, currentSessionId, gridMode, newPage,
                             Undefined, now))
     ELSE UNCHANGED <<db, saves>>
  /\ UNCHANGED <<idb, now, threw, currentSessionId, dbInitialized,
                 lightboxImageId, focusedIndex, mounted, loads, scans,
                 export, requested>>
  /\ ThumbnailEffect

\* no run of the thumbnail effect is in progress and no timer pending
Quiet == runs = <<>> /\ timers = <<>>

QuietPreviousPage ==
  /\ Quiet
  /\ currentPage # 0
  /\ TurnPageThenThumbnails("previousPage", Max(0, currentPage - 1))

QuietNextPage ==
  /\ Quiet
  /\ currentPage # TotalPages(Len(images), gridMode) - 1
  /\ TurnPageThenThumbnails(
       "nextPage", Min(TotalPages(Len(images), gridMode) - 1, currentPage + 1))

SelectReadyThumbsFolder ==
  /\ images = <<>>
  /\ dbInitialized
  /\ SelectFolderThenThumbnails("A", 1..26)

NextThumbFails ==
  \/ InitDatabaseEffect
  \/ SelectReadyThumbsFolder
  \/ CreateThumbnailDone
  \/ CreateThumbnailFails
  \/ PageTimerFires
  \/ SaveTimerFires
  \/ SaveDone
  \/ QuietPreviousPage
  \/ QuietNextPage

SpecThumbFails == Init /\ [][NextThumbFails]_vars

\* the paths createThumbnail is in flight for or will be called for by the
\* runs rs
PendingPaths(rs) ==
  UNION {rs[r].flying \cup {rs[r].todo[k] : k \in 1..Len(rs[r].todo)}
           : r \in 1..Len(rs)}

\* C31: a createThumbnail that rejects changes neither the images nor the
\* store and leaves every other item of its run in flight or to do; once the
\* runs and timers are over every item of the displayed page but the corrupt
\* one has a thumbnail; a page button puts every item of the new page that
\* has no thumbnail, the failed one too, into a run.
C31_FailureSkipsOneItem ==
  /\ [][lastOp' = "createThumbnailFails"
        => /\ images' = images
           /\ db' = db
           /\ \E p \in CorruptFiles :
                PendingPaths(runs) \ {p} \subseteq PendingPaths(runs')]_vars
  /\ []((Quiet /\ currentSessionId # 0)
          => \A i \in 1..Len(images) :
               (i - 1) \div ImagesPerPage(gridMode) = currentPage
                 => \/ images[i].thumbnailUrl # 0
                    \/ images[i].path \in CorruptFiles)
  /\ [][(lastOp' \in {"previousPage", "nextPage"} /\ currentSessionId # 0)
        => \A i \in 1..Len(images') :
             (/\ (i - 1) \div ImagesPerPage(gridMode') = currentPage'
              /\ images'[i].thumbnailUrl = 0)
               => images'[i].path \in PendingPaths(runs')]_vars

\* C31 on 26 items: back on the first page, the second item, whose
\* thumbnail failed, is in a run again, the first item having its thumbnail
C31_FailedItemRetried ==
  /\ lastOp = "previousPage"
  /\ currentPage = 0
  /\ images[1].thumbnailUrl # 0
  /\ images[2].thumbnailUrl = 0
  /\ \A k \in 1..Len(db.images) : db.images[k].thumbnail_data = 0
                                    <=> db.images[k].file_path = 2
  /\ 2 \in PendingPaths(runs)

-----------------------------------------------------------------------------
(* SpecThumbRace: the folder "A" holding files 1..n, n at most MaxFiles,     *)
(* one of them corrupt, selected with the store ready and selected again    *)
(* while the runs of the thumbnail effect are in progress                   *)

\* the runs in progress beyond which the folder is not selected again
MaxRuns == 2

SelectRaceFolder ==
  /\ dbInitialized
  /\ Len(runs) < MaxRuns
  /\ \E n \in 1..MaxFiles : SelectFolderThenThumbnails("A", 1..n)

NextThumbRace ==
  \/ InitDatabaseEffect
  \/ SelectRaceFolder
  \/ CreateThumbnailDone
  \/ CreateThumbnailFails
  \/ SaveTimerFires
  \/ SaveDone

SpecThumbRace == Init /\ [][NextThumbRace]_vars

-----------------------------------------------------------------------------
(* SpecLate: a folder of two pages selected with the store ready, one       *)
(* close-up view opened on the first page and closed, and the next-page     *)
(* button pressed at any moment of the thumbnail run and of the loads; the  *)
(* timers of the effect stay pending                                        *)

\* Space on the focused item of the first page, pressed for the first time
OpenCloseUpOnFirstPage ==
  /\ currentPage = 0
  /\ OpenFirstCloseUp

\* the next-page button, whatever is in flight
NextPageThenThumbnails ==
  /\ currentPage # TotalPages(Len(images), gridMode) - 1
  /\ TurnPageThenThumbnails("nextPage",
                            Min(TotalPages(Len(images), gridMode) - 1,
                                currentPage + 1))

NextLate ==
  \/ InitDatabaseEffect
  \/ SelectReadyThumbsFolder
  \/ OpenCloseUpOnFirstPage
  \/ handleCloseLightbox
  \/ NextPageThenThumbnails
  \/ CreateThumbnailDone
  \/ LoadDone
  \/ SaveDone

SpecLate == Init /\ [][NextLate]_vars

\* C33: nothing cancels work in flight: when createThumbnail resolves for an
\* item, or the load of a full-resolution image resolves, after the user
\* turned to another page, the result is still applied to the item of that
\* id, on whatever page it is.
C33_LateResultsAreApplied ==
  /\ [][lastOp' = "loadDone"
        => \E k \in 1..Len(loads) :
             /\ loads' = RemoveAt(loads, k) \o Continuation(loads[k])
             /\ \A i \in 1..Len(images) :
                  images[i].path = loads[k].id => images'[i].fullResUrl]_vars
  /\ [][lastOp' = "createThumbnailDone"
        => \E r \in 1..Len(runs) : \E p \in runs[r].flying :
             /\ runs' = SubSeq(runs, 1, r - 1) \o Settle(runs[r], p)
                          \o SubSeq(runs, r + 1, Len(runs))
             /\ \A i \in 1..Len(images) :
                  images[i].path = p
                    => images'[i].thumbnailUrl = DataUrl(p)]_vars

\* C33: the load requested on the first page resolved while the second page
\* was displayed, and the first item has its full-resolution image
C33_LoadedAfterPageTurn ==
  /\ lastOp = "loadDone"
  /\ currentPage = 1
  /\ requested = {images[1].path}
  /\ images[1].fullResUrl

\* C33: createThumbnail resolved for an item of the first page while the
\* second page was displayed, its only item still without a thumbnail
C33_ThumbnailAfterPageTurn ==
  /\ lastOp = "createThumbnailDone"
  /\ currentPage = 1
  /\ images[26].thumbnailUrl = 0
  /\ images[25].thumbnailUrl = DataUrl(images[25].path)

-----------------------------------------------------------------------------
\* C34: a selection of a folder that has a session leaves every stored item
\* row as it is, the rows of files that the fresh scan did not return
\* included; the list it displays holds the scanned files only, each with
\* the selected flag and the thumbnail of its stored row (a file that was
\* absent from an earlier scan too), and unselected and without thumbnail
\* when it has no row.
C34_ReconciliationKeepsRows ==
  [][(/\ lastOp' = "selectFolder"
      /\ dbInitialized
      /\ findSessionByFolderName(db, "A").id # 0)
     => LET sid == findSessionByFolderName(db, "A").id
        IN /\ db'.images = db.images
           /\ currentSessionId' = sid
           /\ \A i \in 1..Len(images') : \A j \in 1..Len(images') :
                images'[i].path = images'[j].path => i = j
           /\ \A i \in 1..Len(images') :
                LET hits == {k \in 1..Len(db.images) :
                               /\ db.images[k].session_id = sid
                               /\ db.images[k].file_path = images'[i].path}
                IN IF hits = {}
                   THEN ~images'[i].selected /\ images'[i].thumbnailUrl = 0
                   ELSE \A k \in hits :
                          /\ images'[i].selected = (db.images[k].selected = 1)
                          /\ images'[i].thumbnailUrl
                               = db.images[k].thumbnail_data]_vars

\* C34: the folder was selected again without its second file: the list
\* holds the first file only, and the row of the second file is still in
\* the store, selected and with its thumbnail
C34_AbsentFileKeepsRow ==
  /\ lastOp = "selectFolder"
  /\ Len(images) = 1 /\ images[1].path = 1
  /\ \E k \in 1..Len(db.images) :
       /\ db.images[k].session_id = currentSessionId
       /\ db.images[k].file_path = 2
       /\ db.images[k].selected = 1
       /\ db.images[k].thumbnail_data = DataUrl(2)

\* C34: the folder was selected with its second file, whose row was stored
\* selected and with a thumbnail before: the item shows both
C34_FileShowsStoredRow ==
  /\ lastOp = "selectFolder"
  /\ Len(images) = 2
  /\ images[2].selected /\ images[2].thumbnailUrl = DataUrl(2)
  /\ ~images[1].selected /\ images[1].thumbnailUrl = 0

-----------------------------------------------------------------------------
(* SpecSync: the calls of the store that write a row, each with or without  *)
(* a synchronization, and the writes that complete                          *)

\* updateImageThumbnail called with no write in flight
ThumbnailCallWhenIdle ==
  /\ saves = <<>>
  /\ CallUpdateImageThumbnail

NextSync ==
  \/ CallInitDatabase
  \/ CallCreateSession
  \/ CallUpdateSession
  \/ CallSaveImage
  \/ ThumbnailCallWhenIdle
  \/ CallUpdateImageSelection
  \/ SaveDone

SpecSync == Init /\ [][NextSync]_vars

\* C35: a call of createSession, updateSession or updateImageSelection on
\* the initialized store starts one synchronization, of the store as the
\* call left it, and returns with that write in flight: the durable snapshot
\* is as before the call.  A call of saveImage or updateImageThumbnail
\* starts none.
C35_OneSynchronizationPerCall ==
  /\ [][(/\ lastOp' \in {"createSession", "updateSession",
                         "updateImageSelection"}
         /\ ~threw')
        => /\ saves' = Append(saves, Export(db'))
           /\ idb' = idb]_vars
  /\ [][lastOp' \in {"saveImage", "updateImageThumbnail"}
        => /\ saves' = saves
           /\ idb' = idb]_vars

\* C35: updateImageSelection(1, 1, true) returned: the row is selected in
\* the store and in the snapshot being written, and not in the durable one
C35_SelectionWriteInFlight ==
  /\ lastOp = "updateImageSelection"
  /\ ~threw
  /\ Len(saves) = 1
  /\ Len(db.images) > 0 /\ db.images[1].selected = 1
  /\ saves[1].images = db.images
  /\ Len(idb.images) > 0 /\ idb.images[1].selected = 0

\* C35: updateImageThumbnail(1, 1, data) returned: the row has the
\* thumbnail, no write is in flight and the durable snapshot has the row
\* without it
C35_ThumbnailNotWritten ==
  /\ lastOp = "updateImageThumbnail"
  /\ ~threw
  /\ saves = <<>>
  /\ Len(db.images) > 0 /\ db.images[1].thumbnail_data = 1
  /\ Len(idb.images) > 0 /\ idb.images[1].thumbnail_data = 0

-----------------------------------------------------------------------------
\* C36: in every reachable state with a non-empty list, the cursor is on the
\* displayed page: floor(focusedIndex / ImagesPerPage(gridMode)) is
\* currentPage.
C36_CursorOnDisplayedPage ==
  Len(images) > 0
    => focusedIndex \div ImagesPerPage(gridMode) = currentPage

-----------------------------------------------------------------------------
\* the items of the list that hold a full-resolution object URL
Referenced == {i \in 1..Len(images) : images[i].fullResUrl}

\* C37: at every moment each object URL created for a full-resolution image
\* is referenced by exactly one item of the current list or was revoked:
\* while the App is mounted, the URLs created and not revoked are as many
\* as the items holding one.
C37_HandlesReferencedOrRevoked ==
  mounted => liveUrls = Cardinality(Referenced)

\* two loads of the first item overlapped and both resolved: two URLs were
\* created, none was revoked, and one item holds one
OverlappingLoadsLeak ==
  /\ lastOp = "loadDone"
  /\ mounted
  /\ liveUrls = 2
  /\ Referenced = {1}

\* the folder was selected again after a load resolved: the URL was not
\* revoked and no item of the new list holds it
ReselectionLeaks ==
  /\ lastOp = "selectFolder"
  /\ mounted
  /\ liveUrls = 1
  /\ Referenced = {}

-----------------------------------------------------------------------------
(* SpecThumbsFair: SpecThumbs where the folder is selected and every       *)
(* promise and timer that is pending settles or fires: initDatabase, the    *)
(* createThumbnail calls of a run, the timers and the writes                *)

SpecThumbsFair ==
  /\ SpecThumbs
  /\ WF_vars(InitDatabaseEffect)
  /\ WF_vars(SelectThumbsFolder)
  /\ WF_vars(CreateThumbnailDone)
  /\ WF_vars(PageTimerFires)
  /\ WF_vars(SaveTimerFires)
  /\ WF_vars(SaveDone)

\* createThumbnail was called, or has resolved, for every item of the
\* displayed page
VisiblePageAttempted ==
  \A i \in 1..Len(images) :
    (i - 1) \div ImagesPerPage(gridMode) = currentPage
      => \/ images[i].thumbnailUrl # 0
         \/ \E r \in 1..Len(runs) : images[i].path \in runs[r].flying

\* C38: once a folder is loaded, the generation of a thumbnail is
\* eventually attempted for every item of the displayed page that has none,
\* with or without a session.
C38_ThumbnailsEventuallyAttempted ==
  (Len(images) > 0) ~> VisiblePageAttempted

-----------------------------------------------------------------------------
\* C39: with the cursor on the displayed page, where ArrowRight moves the
\* cursor, ArrowLeft pressed next brings focusedIndex and currentPage back
\* to what they were, and where ArrowLeft moves it, ArrowRight pressed next
\* does, page crossings included.
C39_LeftAndRightAreInverse ==
  [][(/\ OnPage(focusedIndex, currentPage, Len(images), gridMode)
      /\ lastOp' \in {"ArrowLeft", "ArrowRight"}
      /\ focusedIndex' # focusedIndex)
     => LET back == IF lastOp' = "ArrowRight" THEN "ArrowLeft"
                    ELSE "ArrowRight"
        IN /\ KeyFocus(back, focusedIndex', currentPage', Len(images'),
                       gridMode') = focusedIndex
           /\ KeyNewPage(back, focusedIndex', currentPage', Len(images'),
                         gridMode') = currentPage]_vars

\* C39: ArrowRight moved the cursor from the last item of the first page of
\* the 6x4 grid to the first item of the second page
C39_RightCrossedPage ==
  /\ lastOp = "ArrowRight"
  /\ gridMode = "6x4"
  /\ focusedIndex = 24 /\ currentPage = 1

\* C39: ArrowLeft moved the cursor from the first item of the third page of
\* the 5x5 grid to the last item of the second page
C39_LeftCrossedBack ==
  /\ lastOp = "ArrowLeft"
  /\ gridMode = "5x5"
  /\ focusedIndex = 49 /\ currentPage = 1

-----------------------------------------------------------------------------
\* C40: initDatabase never replaces a durable snapshot by an empty store:
\* called on the initialized store it leaves every row and starts no write,
\* and the write it ends with, whether or not the saved snapshot could be
\* loaded, leaves the durable snapshot as it was.
C40_InitKeepsSnapshot ==
  /\ [][(lastOp' = "initDatabase" /\ Initialized(db))
        => db' = db /\ saves' = saves /\ idb' = idb]_vars
  /\ [][(/\ lastOp = "initDatabase"
         /\ lastOp' = "saveDone"
         /\ Initialized(idb))
        => idb' = idb]_vars

=============================================================================
